---- MODULE Spec2Model ----
(***************************************************************************)
(* Execution core of the wasmi register-machine interpreter:               *)
(* crates/wasmi/src/engine/executor/mod.rs (the driver: root call setup,   *)
(* the execute / host-call pump loop, host dispatch, resumable calls and   *)
(* the stack pool).                                                        *)
(*                                                                         *)
(* The value stack, the call stack, the stack pool and the instruction     *)
(* executor live in executor/stack.rs, executor/instrs.rs and engine/mod.rs*)
(* of the crate; they are modelled here from their design contract.        *)
(***************************************************************************)
EXTENDS Integers, Sequences, FiniteSets, TLC

(* ------------------------------ bounds --------------------------------- *)

\* Number of embedder threads invoking functions on the one engine.
NumInv == 2
\* Maximum number of slots of a value stack (StackLimits).
MaxValues == 8
\* Maximum number of frames of a call stack (StackLimits).
MaxDepth == 2
\* Number of registers of every compiled function of the model.
NumRegs == 2
\* Number of call instructions one invocation may execute (its fuel) when the
\* embedder runs the engine operations one at a time.
MaxFuel == 3
\* The same when several threads run engine operations concurrently.
ConcFuel == 1

Inv == 1..NumInv
StackIds == 1..NumInv

Max(a, b) == IF a >= b THEN a ELSE b
Min(a, b) == IF a <= b THEN a ELSE b

(* --------------------------- the functions ----------------------------- *)

\* The functions of the store: compiled Wasm functions (len_consts function
\* local constants in front of NumRegs registers) and host functions.
WasmFuncs == {"wId", "wPair", "wNil", "wFit", "wOver"}
HostFuncs == {"hEcho", "hGen", "hSnd"}
Funcs == WasmFuncs \cup HostFuncs

\* FuncTypes.resolve_func_type(..).params_results(): (len_params, len_results).
LenParams(f) ==
    CASE f = "wId"   -> 1
      [] f = "wPair" -> 2
      [] f = "wNil"  -> 0
      [] f = "wFit"  -> 1
      [] f = "wOver" -> 1
      [] f = "hEcho" -> 1
      [] f = "hGen"  -> 0
      [] f = "hSnd"  -> 2

LenResults(f) ==
    CASE f = "wId"   -> 1
      [] f = "wPair" -> 2
      [] f = "wNil"  -> 0
      [] f = "wFit"  -> 1
      [] f = "wOver" -> 1
      [] f = "hEcho" -> 1
      [] f = "hGen"  -> 2
      [] f = "hSnd"  -> 1

\* CompiledFunc: number of function local constants stored below the registers.
\* wFit is the function whose frame, called as the root with its one result
\* slot reserved, takes exactly the rest of the value stack; the frame of
\* wOver is one slot larger.
LenConsts(f) ==
    CASE f = "wPair" -> 1
      [] f = "wFit"  -> MaxValues - 1 - NumRegs
      [] f = "wOver" -> MaxValues - NumRegs
      [] OTHER       -> 0

\* CompiledFunc: frame_size = constants + registers.
FrameSize(f) == LenConsts(f) + NumRegs

\* The Wasm functions the body of Wasm function f calls.
WasmCallees(f) ==
    CASE f = "wId"   -> {"wPair"}
      [] f = "wPair" -> {"wId"}
      [] f = "wNil"  -> {"wNil"}
      [] OTHER       -> {}

\* The host functions the body of Wasm function f calls (call or return_call).
HostCallees(f) ==
    CASE f = "wId"   -> {"hEcho", "hSnd"}
      [] f = "wPair" -> {"hGen"}
      [] f = "wNil"  -> {"hEcho"}
      [] OTHER       -> {}

\* The params an embedder passes to a root call of f (checked against the type).
RootParams(f) == [k \in 1..LenParams(f) |-> 6 + k]

\* What the host function computes from its inputs when it succeeds.
HostOutputs(h, inputs) ==
    CASE h = "hEcho" -> <<inputs[1]>>
      [] h = "hGen"  -> <<41, 42>>
      [] h = "hSnd"  -> <<inputs[2]>>

\* The values an embedder supplies on resumption: as many as the trapped host
\* function has results (checked by ResumableInvocation::resume).
ResumeValues(h) == { [k \in 1..LenResults(h) |-> b + k] : b \in {50, 60} }

\* Every vector of values an embedder may supply on resumption.
AllResumeValues == UNION {ResumeValues(h) : h \in HostFuncs}

(* --------------------------- the value stack --------------------------- *)
\* Offsets are 0-based as in the code: the slot at offset o is values[o + 1].

\* Faulty variant of CanReserve: one slot beyond the maximum is granted.
CanReserve_OffByOne(values, n) == Len(values) + n <= MaxValues + 1

\* ValueStack::reserve(n): fails with StackOverflow beyond the maximum.
CanReserve(values, n) == Len(values) + n <= MaxValues

\* ValueStack::extend_zeros(n)
ExtendZeros(values, n) == values \o [k \in 1..n |-> 0]

\* ValueStack::drop(n)
Drop(values, n) == SubSeq(values, 1, Len(values) - n)

\* ValueStackPtr::set at stack_ptr_at(offset), register reg.
SetReg(values, offset, reg, v) == [values EXCEPT ![offset + reg + 1] = v]

\* ValueStackPtr::get at stack_ptr_at(offset), register reg.
GetReg(values, offset, reg) == values[offset + reg + 1]

\* ValueStack::fill_at(base_ptr, params)
FillAt(values, base_ptr, ps) ==
    [k \in 1..Len(values) |->
        IF k > base_ptr /\ k <= base_ptr + Len(ps) THEN ps[k - base_ptr] ELSE values[k]]

\* Faulty variant of AllocCallFrame: a frame that takes exactly the rest of
\* the value stack is refused.
AllocCallFrame_RefusesExactFit(values, f) ==
    [ok        |-> Len(values) + FrameSize(f) < MaxValues,
     values    |-> ExtendZeros(values, FrameSize(f)),
     frame_ptr |-> Len(values),
     base_ptr  |-> Len(values) + LenConsts(f)]

\* ValueStack::alloc_call_frame(func): frame_ptr at the old length, base_ptr
\* after the function local constants, frame_size zeroed slots.
AllocCallFrame(values, f) ==
    [ok        |-> CanReserve(values, FrameSize(f)),
     values    |-> ExtendZeros(values, FrameSize(f)),
     frame_ptr |-> Len(values),
     base_ptr  |-> Len(values) + LenConsts(f)]

\* CallFrame::new(instr_ptr, frame_ptr, base_ptr, results, instance)
CallFrame(f, frame_ptr, base_ptr, results) ==
    [func |-> f, frame_ptr |-> frame_ptr, base_offset |-> base_ptr,
     results |-> results, instance |-> "inst"]

\* Faulty variant of Reset: the frames of the call stack are kept.
Reset_KeepsCalls(st) == [values |-> <<>>, calls |-> st.calls]

\* Stack::reset(): both stacks are emptied.
Reset(st) == [values |-> <<>>, calls |-> <<>>]

\* CallStack::peek()
Peek(calls) == calls[Len(calls)]

\* CallStack::pop()
Pop(calls) == SubSeq(calls, 1, Len(calls) - 1)

(* ------------------------- traps and outcomes -------------------------- *)

NoTrap == [tag |-> "None"]

\* TaggedTrap::Wasm(error)
WasmTrap(error) == [tag |-> "Wasm", error |-> error]

\* TaggedTrap::host(host_func, host_error, caller_results)
HostTrap(host_func, host_error, caller_results) ==
    [tag |-> "Host", host_func |-> host_func, host_error |-> host_error,
     caller_results |-> caller_results]

\* TaggedTrap::into_error: both kinds flatten to the user facing error.
IntoError(trap) == IF trap.tag = "Host" THEN trap.host_error ELSE trap.error

\* HostFuncCaller
RootCaller == [tag |-> "Root"]
WasmCaller(results, instance) == [tag |-> "Wasm", results |-> results, instance |-> instance]

(* ---------------------------- host dispatch ---------------------------- *)

\* The view FuncParams::new gives the trampoline: the top max_inout slots.
BufferOffset(values, max_inout) == Len(values) - max_inout

\* The inputs the trampoline reads from the prefix of its buffer.
HostInputs(values, h) ==
    LET off == BufferOffset(values, Max(LenParams(h), LenResults(h)))
    IN  [k \in 1..LenParams(h) |-> values[off + k]]

\* A successful trampoline call: the outputs are written to the buffer's prefix.
TrampolineWrite(values, max_inout, outs) ==
    FillAt(values, BufferOffset(values, max_inout), outs)

\* Faulty variant of OnTrampolineError: the buffer is left on the stack.
OnTrampolineError_NoDrop(values, max_inout) == values

\* dispatch_host_func, the error path of trampoline.call: the buffer is dropped.
OnTrampolineError(values, max_inout) == Drop(values, max_inout)

\* Faulty variant of CopyResults: the callee register is not advanced.
RECURSIVE CopyResults_Slot0(_, _, _, _, _, _)
CopyResults_Slot0(values, caller_offset, results, callee_offset, done, len_outputs) ==
    IF done >= len_outputs THEN values
    ELSE CopyResults_Slot0(
            SetReg(values, caller_offset, results + done,
                   GetReg(values, callee_offset, 0)),
            caller_offset, results, callee_offset, done + 1, len_outputs)

\* dispatch_host_func, the copy loop: register results + k of the caller
\* receives register k of the callee buffer, for k = done .. len_outputs - 1.
RECURSIVE CopyResults(_, _, _, _, _, _)
CopyResults(values, caller_offset, results, callee_offset, done, len_outputs) ==
    IF done >= len_outputs THEN values
    ELSE CopyResults(
            SetReg(values, caller_offset, results + done,
                   GetReg(values, callee_offset, done)),
            caller_offset, results, callee_offset, done + 1, len_outputs)

\* Faulty variant of WriteBackToCaller: the caller's base_offset is read as if
\* the frame on top had been popped already.
WriteBackToCaller_PopFirst(st, results, max_inout, len_outputs) ==
    LET caller_offset == IF Len(st.calls) > 1 THEN Peek(Pop(st.calls)).base_offset
                         ELSE Peek(st.calls).frame_ptr
        callee_offset == Len(st.values) - max_inout
    IN  Drop(CopyResults(st.values, caller_offset, results, callee_offset, 0, len_outputs),
             max_inout)

\* Faulty variant of WriteBackToCaller: the value stack is not truncated.
WriteBackToCaller_NoDrop(st, results, max_inout, len_outputs) ==
    LET caller_offset == Peek(st.calls).base_offset
        callee_offset == Len(st.values) - max_inout
    IN  CopyResults(st.values, caller_offset, results, callee_offset, 0, len_outputs)

\* dispatch_host_func, the success path for caller = Wasm{results, ..}: copy
\* to the frame on top of the call stack, then truncate to the original size.
WriteBackToCaller(st, results, max_inout, len_outputs) ==
    LET caller_offset == Peek(st.calls).base_offset
        callee_offset == Len(st.values) - max_inout
    IN  Drop(CopyResults(st.values, caller_offset, results, callee_offset, 0, len_outputs),
             max_inout)

\* Faulty variant of DispatchHostFunc: after a failed trampoline call the
\* buffer is copied to the caller's result span before it is dropped.
DispatchHostFunc_CopiesOnError(st, host_func, caller, tramp) ==
    LET len_inputs  == LenParams(host_func)
        len_outputs == LenResults(host_func)
        max_inout   == Max(len_inputs, len_outputs)
    IN  IF ~tramp.ok
        THEN [stack |-> IF caller.tag = "Wasm"
                        THEN [st EXCEPT !.values =
                                WriteBackToCaller(st, caller.results,
                                                  max_inout, len_outputs)]
                        ELSE [st EXCEPT !.values = OnTrampolineError(@, max_inout)],
              error |-> tramp.error]
        ELSE LET called == [st EXCEPT !.values = TrampolineWrite(@, max_inout, tramp.outs)]
             IN  [stack |-> IF caller.tag = "Wasm"
                            THEN [called EXCEPT !.values =
                                    WriteBackToCaller(called, caller.results,
                                                      max_inout, len_outputs)]
                            ELSE called,
                  error |-> "none"]

\* dispatch_host_func(ctx, host_func, caller); tramp is what the trampoline
\* does: [ok |-> TRUE, outs |-> ..] or [ok |-> FALSE, error |-> ..].
\* Returns the stack at exit and the Result<(), Error>.
DispatchHostFunc(st, host_func, caller, tramp) ==
    LET len_inputs  == LenParams(host_func)
        len_outputs == LenResults(host_func)
        max_inout   == Max(len_inputs, len_outputs)
    IN  IF ~tramp.ok
        THEN [stack |-> [st EXCEPT !.values = OnTrampolineError(@, max_inout)],
              error |-> tramp.error]
        ELSE LET called == [st EXCEPT !.values = TrampolineWrite(@, max_inout, tramp.outs)]
             IN  [stack |-> IF caller.tag = "Wasm"
                            THEN [called EXCEPT !.values =
                                    WriteBackToCaller(called, caller.results,
                                                      max_inout, len_outputs)]
                            ELSE called,
                  error |-> "none"]

\* Faulty variant of PopForCallKind: the tail call's caller is not popped.
PopForCallKind_NoPop(calls, call_kind) == calls

\* execute_host_func: for a tail call the caller's frame is popped.
PopForCallKind(calls, call_kind) == IF call_kind = "Tail" THEN Pop(calls) ELSE calls

\* Faulty variant of WrapHostResult: every host error is made resumable.
WrapHostResult_AlwaysHost(calls, error, func, results) ==
    IF error = "none" THEN NoTrap ELSE HostTrap(func, error, results)

\* execute_host_func: how the dispatch result is wrapped, by whether a frame
\* is on the call stack.
WrapHostResult(calls, error, func, results) ==
    IF error = "none" THEN NoTrap
    ELSE IF calls # <<>> THEN HostTrap(func, error, results)
    ELSE WasmTrap(error)

\* Faulty variant of WriteResultsBack: the results sink is left zeroed.
WriteResultsBack_Zeros(values, len_results) == [k \in 1..len_results |-> 0]

\* write_results_back: the results sink reads values.as_slice()[..len_results].
WriteResultsBack(values, len_results) == SubSeq(values, 1, len_results)

\* resume_func: the supplied values are written to the registers
\* caller_results + k of the frame on top of the call stack.
RECURSIVE ResumeWrite(_, _, _, _, _)
ResumeWrite(values, caller_offset, caller_results, call_params, done) ==
    IF done >= Len(call_params) THEN values
    ELSE ResumeWrite(
            SetReg(values, caller_offset, caller_results + done, call_params[done + 1]),
            caller_offset, caller_results, call_params, done + 1)

\* Faulty variant of ResumeFuncWrite: the registers are addressed from the
\* frame's frame_ptr instead of its base_offset.
ResumeFuncWrite_FramePtr(st, call_params, caller_results) ==
    [st EXCEPT !.values =
        ResumeWrite(@, Peek(st.calls).frame_ptr, caller_results, call_params, 0)]

ResumeFuncWrite(st, call_params, caller_results) ==
    [st EXCEPT !.values =
        ResumeWrite(@, Peek(st.calls).base_offset, caller_results, call_params, 0)]

(* ------------------------------ root call ------------------------------ *)

\* Faulty variant of ExecuteRootSetup: the frame of a Wasm callee is allocated
\* before the compiled body is fetched.
ExecuteRootSetup_AllocBeforeFetch(st, f, ps, fuel_ok) ==
    LET st0 == Reset(st)
    IN  IF f \in WasmFuncs
        THEN LET len_results == LenResults(f)
                 v1 == ExtendZeros(st0.values, len_results)
                 fr == AllocCallFrame(v1, f)
                 v2 == FillAt(fr.values, fr.base_ptr, ps)
                 frame == CallFrame(f, fr.frame_ptr, fr.base_ptr, 0)
             IN  IF ~CanReserve(st0.values, len_results)
                 THEN [stack |-> st0, trap |-> WasmTrap("StackOverflow"), next |-> "ret"]
                 ELSE IF ~fr.ok
                 THEN [stack |-> [st0 EXCEPT !.values = v1],
                       trap |-> WasmTrap("StackOverflow"), next |-> "ret"]
                 ELSE IF ~fuel_ok
                 THEN [stack |-> [st0 EXCEPT !.values = fr.values],
                       trap |-> WasmTrap("OutOfFuel"), next |-> "ret"]
                 ELSE IF Len(st0.calls) >= MaxDepth
                 THEN [stack |-> [st0 EXCEPT !.values = v2],
                       trap |-> WasmTrap("StackOverflow"), next |-> "ret"]
                 ELSE [stack |-> [values |-> v2, calls |-> Append(st0.calls, frame)],
                       trap |-> NoTrap, next |-> "exec"]
        ELSE LET len_params  == LenParams(f)
                 len_results == LenResults(f)
                 max_inout   == Max(len_params, len_results)
                 v1 == ExtendZeros(st0.values, max_inout)
                 v2 == FillAt(v1, 0, SubSeq(ps, 1, Min(len_params, Len(ps))))
             IN  IF ~CanReserve(st0.values, max_inout)
                 THEN [stack |-> st0, trap |-> WasmTrap("StackOverflow"), next |-> "ret"]
                 ELSE [stack |-> [st0 EXCEPT !.values = v2],
                       trap |-> NoTrap, next |-> "dispatch"]

\* execute_root_func up to the pump loop or the host dispatch: the stack is
\* reset, then set up for the callee. fuel_ok is whether CodeMap::get succeeds.
\* next is where the driver continues: "exec" (the pump loop), "dispatch"
\* (dispatch_host_func with caller = Root) or "ret" (an early error return).
ExecuteRootSetup(st, f, ps, fuel_ok) ==
    LET st0 == Reset(st)
    IN  IF f \in WasmFuncs
        THEN LET len_results == LenResults(f)
                 v1 == ExtendZeros(st0.values, len_results)
                 fr == AllocCallFrame(v1, f)
                 v2 == FillAt(fr.values, fr.base_ptr, ps)
                 frame == CallFrame(f, fr.frame_ptr, fr.base_ptr, 0)
             IN  IF ~CanReserve(st0.values, len_results)
                 THEN [stack |-> st0, trap |-> WasmTrap("StackOverflow"), next |-> "ret"]
                 ELSE IF ~fuel_ok
                 THEN [stack |-> [st0 EXCEPT !.values = v1],
                       trap |-> WasmTrap("OutOfFuel"), next |-> "ret"]
                 ELSE IF ~fr.ok
                 THEN [stack |-> [st0 EXCEPT !.values = v1],
                       trap |-> WasmTrap("StackOverflow"), next |-> "ret"]
                 ELSE IF Len(st0.calls) >= MaxDepth
                 THEN [stack |-> [st0 EXCEPT !.values = v2],
                       trap |-> WasmTrap("StackOverflow"), next |-> "ret"]
                 ELSE [stack |-> [values |-> v2, calls |-> Append(st0.calls, frame)],
                       trap |-> NoTrap, next |-> "exec"]
        ELSE LET len_params  == LenParams(f)
                 len_results == LenResults(f)
                 max_inout   == Max(len_params, len_results)
                 v1 == ExtendZeros(st0.values, max_inout)
                 v2 == FillAt(v1, 0, SubSeq(ps, 1, Min(len_params, Len(ps))))
             IN  IF ~CanReserve(st0.values, max_inout)
                 THEN [stack |-> st0, trap |-> WasmTrap("StackOverflow"), next |-> "ret"]
                 ELSE [stack |-> [st0 EXCEPT !.values = v2],
                       trap |-> NoTrap, next |-> "dispatch"]

\* Faulty variant of ExecuteRootSetupWithTrace: the root frame's result span
\* starts at register 1.
ExecuteRootSetupWithTrace_ResultsAtOne(st, f, ps, fuel_ok) ==
    LET r == ExecuteRootSetup(st, f, ps, fuel_ok)
    IN  IF r.next = "exec"
        THEN [r EXCEPT !.stack.calls = <<[r.stack.calls[1] EXCEPT !.results = 1]>>]
        ELSE r

\* execute_root_func_with_trace up to the pump loop or the host dispatch: the
\* stack is reset, then set up for the callee; the tracer is handed on to
\* execute_func_with_trace and is not used before. Same results as
\* ExecuteRootSetup: "exec" is the pump loop of execute_func_with_trace.
ExecuteRootSetupWithTrace(st, f, ps, fuel_ok) ==
    LET reset == Reset(st)
    IN  IF f \in WasmFuncs
        THEN LET len_results == LenResults(f)
                 reserved == CanReserve(reset.values, len_results)
                 with_results == [reset EXCEPT !.values = ExtendZeros(@, len_results)]
                 alloc == AllocCallFrame(with_results.values, f)
                 filled == FillAt(alloc.values, alloc.base_ptr, ps)
                 pushed == Append(with_results.calls,
                                  CallFrame(f, alloc.frame_ptr, alloc.base_ptr, 0))
             IN  CASE ~reserved ->
                        [stack |-> reset, trap |-> WasmTrap("StackOverflow"), next |-> "ret"]
                   [] reserved /\ ~fuel_ok ->
                        [stack |-> with_results, trap |-> WasmTrap("OutOfFuel"),
                         next |-> "ret"]
                   [] reserved /\ fuel_ok /\ ~alloc.ok ->
                        [stack |-> with_results, trap |-> WasmTrap("StackOverflow"),
                         next |-> "ret"]
                   [] reserved /\ fuel_ok /\ alloc.ok
                        /\ Len(with_results.calls) >= MaxDepth ->
                        [stack |-> [with_results EXCEPT !.values = filled],
                         trap |-> WasmTrap("StackOverflow"), next |-> "ret"]
                   [] OTHER ->
                        [stack |-> [values |-> filled, calls |-> pushed],
                         trap |-> NoTrap, next |-> "exec"]
        ELSE LET len_params == LenParams(f)
                 len_results == LenResults(f)
                 max_inout == Max(len_params, len_results)
                 extended == ExtendZeros(reset.values, max_inout)
                 written == [k \in 1..Len(extended) |->
                                IF k <= Min(len_params, Len(ps)) THEN ps[k]
                                ELSE extended[k]]
             IN  IF CanReserve(reset.values, max_inout)
                 THEN [stack |-> [reset EXCEPT !.values = written],
                       trap |-> NoTrap, next |-> "dispatch"]
                 ELSE [stack |-> reset, trap |-> WasmTrap("StackOverflow"),
                       next |-> "ret"]

(* ----------------------------- the stack pool -------------------------- *)

\* StackPool::reuse_or_new: the most recently recycled Stack, or a new one.
\* in_use are the Stacks owned by invocations.
ReuseOrNew(stack_pool, in_use) ==
    IF stack_pool # <<>>
    THEN [id |-> stack_pool[Len(stack_pool)],
          pool |-> SubSeq(stack_pool, 1, Len(stack_pool) - 1), new |-> FALSE]
    ELSE [id |-> CHOOSE s \in StackIds : s \notin in_use, pool |-> stack_pool, new |-> TRUE]

\* StackPool::recycle
Recycle(stack_pool, s) == Append(stack_pool, s)

(* ------------------------------ the tracer ----------------------------- *)
\* crates/wasmi/src/tracer: the ETable (etable.rs), the MTable derived from it
\* (mtable.rs) and the IMTable (imtable.rs) of a Tracer (mod.rs).

\* The Tracers the embedder creates.
Tracers == {"t1", "t2"}

\* Maximum number of entries pushed to one ETable.
MaxEvents == 2
\* Maximum number of globals pushed to one IMTable.
MaxGlobals == 1
\* Maximum number of initial pages of a memory whose words are pushed.
MaxPages == 2

\* IVal{val, addr}
IVal(val, addr) == [val |-> val, addr |-> addr]

\* StepInfo::I32BinOp{class, left, right, result}
I32BinOp(class, left, right, result) ==
    [tag |-> "I32BinOp", class |-> class, left |-> left, right |-> right, result |-> result]

\* StepInfo::Unimplemented(instr)
Unimplemented(instr) == [tag |-> "Unimplemented", instr |-> instr]

\* The steps the instruction executor reports to ETable::push.
StepInfos ==
    { I32BinOp("Add", IVal(2, 0), IVal(3, 1), IVal(5, 2)),
      I32BinOp("Sub", IVal(9, 4), IVal(2, 3), IVal(7, 4)),
      Unimplemented("Call") }

\* Faulty variant of ETablePush: the eid is the length before the push.
ETablePush_EidLen(entries, allocated_memory_pages, step_info) ==
    Append(entries, [eid |-> Len(entries),
                     allocated_memory_pages |-> allocated_memory_pages,
                     step_info |-> step_info])

\* ETable::push: eid = entries().len() + 1, the entry is appended.
ETablePush(entries, allocated_memory_pages, step_info) ==
    Append(entries, [eid |-> Len(entries) + 1,
                     allocated_memory_pages |-> allocated_memory_pages,
                     step_info |-> step_info])

\* MemoryTableEntry of a stack access of ival.
MemoryTableEntry(eid, emid, ival, atype) ==
    [eid |-> eid, emid |-> emid, addr |-> ival.addr, ltype |-> "Stack",
     atype |-> atype, is_mutable |-> TRUE, value |-> ival.val]

\* Faulty variant of MemOpFromStackOnlyStep: the writes come before the reads.
MemOpFromStackOnlyStep_WritesFirst(eid, emid, read_value, write_value) ==
    LET writes == [k \in 1..Len(write_value) |->
                    MemoryTableEntry(eid, emid + k - 1, write_value[k], "Write")]
        reads == [k \in 1..Len(read_value) |->
                    MemoryTableEntry(eid, emid + Len(write_value) + k - 1,
                                     read_value[k], "Read")]
    IN  [mem_op |-> writes \o reads,
         emid |-> emid + Len(read_value) + Len(write_value)]

\* mem_op_from_stack_only_step: one Read entry per read value, then one Write
\* entry per written value; *emid is incremented after every entry. Returns
\* the entries and the value *emid is left with.
MemOpFromStackOnlyStep(eid, emid, read_value, write_value) ==
    LET reads == [k \in 1..Len(read_value) |->
                    MemoryTableEntry(eid, emid + k - 1, read_value[k], "Read")]
        writes == [k \in 1..Len(write_value) |->
                    MemoryTableEntry(eid, emid + Len(read_value) + k - 1,
                                     write_value[k], "Write")]
    IN  [mem_op |-> reads \o writes,
         emid |-> emid + Len(read_value) + Len(write_value)]

\* memory_event_of_step(event, emid)
MemoryEventOfStep(event, emid) ==
    IF event.step_info.tag = "I32BinOp"
    THEN MemOpFromStackOnlyStep(event.eid, emid,
                                <<event.step_info.left, event.step_info.right>>,
                                <<event.step_info.result>>)
    ELSE [mem_op |-> <<>>, emid |-> emid]

\* Faulty variant of MapConcat: the Vecs are concatenated last event first.
RECURSIVE MapConcat_LastFirst(_, _)
MapConcat_LastFirst(entries, k) ==
    IF k > Len(entries) THEN <<>>
    ELSE MapConcat_LastFirst(entries, k + 1) \o MemoryEventOfStep(entries[k], 1).mem_op

\* The concatenation of the Vecs get_mtable collects: every entry of the
\* ETable is mapped with memory_event_of_step(entry, &mut 1), a fresh counter
\* of value 1 for every entry.
RECURSIVE MapConcat(_, _)
MapConcat(entries, k) ==
    IF k > Len(entries) THEN <<>>
    ELSE MemoryEventOfStep(entries[k], 1).mem_op \o MapConcat(entries, k + 1)

\* Faulty variant of GetMTable: the emids go on from the size of the IMTable.
GetMTable_FromIMTable(tr) ==
    [k \in 1..Len(MapConcat(tr.etable, 1)) |->
        [MapConcat(tr.etable, 1)[k] EXCEPT !.emid = @ + Len(tr.imtable)]]

\* Tracer::get_mtable(&self): MTable::new of the concatenation.
GetMTable(tr) == MapConcat(tr.etable, 1)

\* A u32 is kept as two 16 bit limbs, least significant first, a u64 as four.
Limb == 65536

U32(n) == <<n % Limb, n \div Limb>>

U64(n) == <<n % Limb, n \div Limb, 0, 0>>

\* u32::MAX
U32Max == <<Limb - 1, Limb - 1>>

\* a < b for two u32
U32Less(a, b) == a[2] < b[2] \/ (a[2] = b[2] /\ a[1] < b[1])

\* a * m for a u32 a and a small factor m: the wrapped product and whether
\* it overflowed 32 bits.
U32Mul(a, m) ==
    LET lo == a[1] * m
        hi == a[2] * m + (lo \div Limb)
    IN  [val |-> <<lo % Limb, hi % Limb>>, overflow |-> hi >= Limb]

\* a - 1 for a u32 a: the wrapped difference and whether it underflowed.
U32SubOne(a) ==
    IF a = <<0, 0>> THEN [val |-> U32Max, overflow |-> TRUE]
    ELSE IF a[1] = 0 THEN [val |-> <<Limb - 1, a[2] - 1>>, overflow |-> FALSE]
    ELSE [val |-> <<a[1] - 1, a[2]>>, overflow |-> FALSE]

\* impl From<ValType> for ValueType
ValueTypeFrom(v) ==
    CASE v = "I32" -> "I32"
      [] v = "I64" -> "I64"
      [] v = "F32" -> "F32"
      [] v = "F64" -> "F64"
      [] v = "FuncRef" -> "FuncRef"
      [] v = "ExternRef" -> "ExternRef"

\* IMTable::push
IMTablePush(entries, is_global, is_mutable, start_offset, end_offset, vtype, value) ==
    Append(entries,
           [ltype |-> IF is_global THEN "Global" ELSE "Heap",
            is_mutable |-> is_mutable,
            start_offset |-> start_offset,
            end_offset |-> end_offset,
            vtype |-> vtype,
            value |-> value])

\* The globals of the instance: mutability, content type and value.
Globals ==
    { [mutable |-> TRUE,  content |-> "I32", value |-> 11],
      [mutable |-> FALSE, content |-> "I64", value |-> 12] }

\* Tracer::push_global(global_idx, global_ref, context)
PushGlobalEntry(imtable, global_idx, g) ==
    IMTablePush(imtable, TRUE, g.mutable, U32(global_idx), U32(global_idx),
                ValueTypeFrom(g.content), U64(g.value))

\* The number of 8 byte words of a page of linear memory.
WordsPerPage == 8192

\* The largest number of pages a memory type may declare.
MaxMemoryPages == 65536

\* Option<Pages>
None == [some |-> FALSE]
Some(pages) == [some |-> TRUE, pages |-> pages]

\* The memories of the instance: the initial and the maximum pages of the
\* memory type (initial <= maximum) and a seed that decides the contents.
Memories ==
    { [initial_pages |-> p, maximum_pages |-> m, seed |-> sd] :
        p \in 0..MaxPages,
        m \in {None} \cup {Some(x) : x \in (0..(MaxPages + 1)) \cup {MaxMemoryPages}},
        sd \in {0, 5} }

LegalMemories == {mem \in Memories :
                    mem.maximum_pages.some => mem.initial_pages <= mem.maximum_pages.pages}

\* The byte of the memory at byte offset o.
MemByte(mem, o) == (7 * o + 3 * (o \div 256) + mem.seed) % 256

\* Memory::read(context, offset, buf) for a buffer of 8 bytes.
MemRead(mem, offset) == [j \in 1..8 |-> MemByte(mem, offset + j - 1)]

\* Faulty variant of FromLeBytes: the most significant byte comes first.
FromLeBytes_BigEndian(buf) ==
    <<buf[8] + 256 * buf[7], buf[6] + 256 * buf[5],
      buf[4] + 256 * buf[3], buf[2] + 256 * buf[1]>>

\* u64::from_le_bytes(buf)
FromLeBytes(buf) ==
    <<buf[1] + 256 * buf[2], buf[3] + 256 * buf[4],
      buf[5] + 256 * buf[6], buf[7] + 256 * buf[8]>>

\* push_init_memory, the loop: one entry per 8 byte word of the initial
\* pages. pages * 8192 and i * 8 stay below 2^32 for pages <= 65536.
InitMemoryWords(mem) ==
    [k \in 1..(mem.initial_pages * WordsPerPage) |->
        [ltype |-> "Heap", is_mutable |-> TRUE,
         start_offset |-> U32(k - 1), end_offset |-> U32(k - 1),
         vtype |-> "I64", value |-> FromLeBytes(MemRead(mem, (k - 1) * 8))]]

\* push_init_memory, the end_offset of the terminator:
\* max_pages.map(|limit| u32::from(limit) * 8192 - 1).unwrap_or(u32::MAX),
\* the wrapped value and whether the arithmetic overflowed.
TerminatorEnd(maximum_pages) ==
    IF ~maximum_pages.some THEN [val |-> U32Max, overflow |-> FALSE]
    ELSE LET product == U32Mul(U32(maximum_pages.pages), WordsPerPage)
             minus == U32SubOne(product.val)
         IN  [val |-> minus.val, overflow |-> product.overflow \/ minus.overflow]

\* Tracer::push_init_memory(mem_ref, context). overflow_checks is whether
\* the build panics on integer overflow (it wraps otherwise). Returns the
\* IMTable and whether the call panicked.
PushInitMemoryEntries(imtable, mem, overflow_checks) ==
    LET words == imtable \o InitMemoryWords(mem)
        end == TerminatorEnd(mem.maximum_pages)
    IN  IF end.overflow /\ overflow_checks
        THEN [imtable |-> words, panicked |-> TRUE]
        ELSE [imtable |-> IMTablePush(words, FALSE, TRUE,
                                      U32(mem.initial_pages * WordsPerPage),
                                      end.val, "I64", U64(0)),
              panicked |-> FALSE]

\* Tracer::new: both tables are empty.
NewTracer == [imtable |-> <<>>, etable |-> <<>>]

NoMTable == [tag |-> "none"]
NoTracerOp == [op |-> "none"]

(* -------------------------------- state -------------------------------- *)

VARIABLES
    pool,      \* EngineInner::stacks: the recycled Stacks
    stacks,    \* the value stack and the call stack of every Stack
    pc,        \* where each invocation is in the driver
    call,      \* the engine operation an invocation runs, and its arguments
    cur,       \* the Stack the invocation's EngineExecutor borrows (0: none)
    pending,   \* the WasmOutcome::Call or root host call being dispatched
    trap,      \* the Result of the executor: NoTrap or the TaggedTrap
    results,   \* what write_results_back handed to the results sink
    rinv,      \* the ResumableInvocation returned to the embedder
    outcome,   \* what the engine operation returned
    hist,      \* history: the last driver step of the invocation, with its pre-state
    snap,      \* history: the stack and call at the last host dispatch from Wasm
    nrec,      \* history: how many times the operation recycled a Stack
    fuel,      \* the call instructions the invocation may still execute
    tracer,    \* the Tracers of the embedder: their IMTable and ETable
    mtable,    \* the MTable get_mtable last returned for each Tracer, if the
               \* Tracer has not changed since
    tlast      \* history: the last operation on a Tracer, with its pre-state

\* The state of the tracers.
tvars == <<tracer, mtable, tlast>>

vars == <<pool, stacks, pc, call, cur, pending, trap, results, rinv, outcome, hist, snap, nrec, fuel,
          tracer, mtable, tlast>>

NoCall    == [api |-> "none", func |-> "none", params |-> <<>>]
NoPending == [caller |-> "none"]
NoRinv    == [tag |-> "none"]
NoOutcome == [tag |-> "None"]
NoHist    == [op |-> "none"]
NoSnap    == [tag |-> "none"]

EmptyStack == [values |-> <<>>, calls |-> <<>>]

\* The Stacks owned by an executor or by a ResumableInvocation.
InUse ==
    {cur[i] : i \in Inv} \cup {rinv[i].stack : i \in {j \in Inv : rinv[j].tag = "some"}}

Init ==
    /\ pool = <<>>
    /\ stacks = [s \in StackIds |-> EmptyStack]
    /\ pc = [i \in Inv |-> "idle"]
    /\ call = [i \in Inv |-> NoCall]
    /\ cur = [i \in Inv |-> 0]
    /\ pending = [i \in Inv |-> NoPending]
    /\ trap = [i \in Inv |-> NoTrap]
    /\ results = [i \in Inv |-> <<>>]
    /\ rinv = [i \in Inv |-> NoRinv]
    /\ outcome = [i \in Inv |-> NoOutcome]
    /\ hist = [i \in Inv |-> NoHist]
    /\ snap = [i \in Inv |-> NoSnap]
    /\ nrec = [i \in Inv |-> 0]
    /\ fuel = [i \in Inv |-> 0]
    /\ tracer = [t \in Tracers |-> NewTracer]
    /\ mtable = [t \in Tracers |-> NoMTable]
    /\ tlast = NoTracerOp

StartApis == {"execute_func", "execute_func_with_trace", "execute_func_resumable"}

\* The Tracer the embedder hands to the traced operation of invocation i.
TracerOf(i) == IF i = 1 THEN "t1" ELSE "t2"

\* Whether invocation i runs execute_func_with_trace.
Traced(i) == call[i].api = "execute_func_with_trace"

\* The embedder starts an operation: the ETable of the thread's previous
\* operation is dropped, and execute_func_with_trace is given a Tracer without
\* ETable entries; the other operations take none.
AttachTracer(i, api) ==
    /\ tracer' = [tracer EXCEPT ![TracerOf(i)].etable = <<>>]
    /\ UNCHANGED <<mtable, tlast>>

\* One interpreted step: the traced executor writes one ETable entry with the
\* current allocated page count, the untraced executor none. The call, return
\* and trap instructions are not among the steps StepInfo models.
EmitStep(i, instr) ==
    /\ tracer' = IF Traced(i)
                 THEN [tracer EXCEPT ![TracerOf(i)].etable =
                            ETablePush(@, 1, Unimplemented(instr))]
                 ELSE tracer
    /\ UNCHANGED <<mtable, tlast>>

(* ------------------------- the engine operations ----------------------- *)

\* Faulty variant of Start: the Stack is read from the pool but left in it.
Start_NoPop(i, api, f, budget) ==
    /\ pc[i] \in {"idle", "done"}
    /\ fuel' = [fuel EXCEPT ![i] = budget]
    /\ LET r == ReuseOrNew(pool, InUse \ {0})
       IN  /\ pool' = pool
           /\ cur' = [cur EXCEPT ![i] = r.id]
           /\ stacks' = IF r.new THEN [stacks EXCEPT ![r.id] = EmptyStack] ELSE stacks
           /\ hist' = [hist EXCEPT ![i] = [op |-> "start", new |-> r.new]]
    /\ pc' = [pc EXCEPT ![i] = "root"]
    /\ call' = [call EXCEPT ![i] = [api |-> api, func |-> f, params |-> RootParams(f)]]
    /\ outcome' = [outcome EXCEPT ![i] = NoOutcome]
    /\ results' = [results EXCEPT ![i] = <<>>]
    /\ trap' = [trap EXCEPT ![i] = NoTrap]
    /\ snap' = [snap EXCEPT ![i] = NoSnap]
    /\ nrec' = [nrec EXCEPT ![i] = 0]
    /\ UNCHANGED <<pending, rinv>>
    /\ AttachTracer(i, api)

\* execute_func / execute_func_with_trace / execute_func_resumable, entry:
\* a Stack is taken from the pool under its lock.
Start(i, api, f, budget) ==
    /\ pc[i] \in {"idle", "done"}
    /\ fuel' = [fuel EXCEPT ![i] = budget]
    /\ LET r == ReuseOrNew(pool, InUse \ {0})
       IN  /\ pool' = r.pool
           /\ cur' = [cur EXCEPT ![i] = r.id]
           /\ stacks' = IF r.new THEN [stacks EXCEPT ![r.id] = EmptyStack] ELSE stacks
           /\ hist' = [hist EXCEPT ![i] = [op |-> "start", new |-> r.new]]
    /\ pc' = [pc EXCEPT ![i] = "root"]
    /\ call' = [call EXCEPT ![i] = [api |-> api, func |-> f, params |-> RootParams(f)]]
    /\ outcome' = [outcome EXCEPT ![i] = NoOutcome]
    /\ results' = [results EXCEPT ![i] = <<>>]
    /\ trap' = [trap EXCEPT ![i] = NoTrap]
    /\ snap' = [snap EXCEPT ![i] = NoSnap]
    /\ nrec' = [nrec EXCEPT ![i] = 0]
    /\ UNCHANGED <<pending, rinv>>
    /\ AttachTracer(i, api)

\* execute_root_func / execute_root_func_with_trace up to the pump loop, the
\* host dispatch or an early error.
ExecuteRootFunc(i, fuel_ok) ==
    /\ pc[i] = "root"
    /\ LET r == IF Traced(i)
                THEN ExecuteRootSetupWithTrace(stacks[cur[i]], call[i].func,
                                               call[i].params, fuel_ok)
                ELSE ExecuteRootSetup(stacks[cur[i]], call[i].func, call[i].params,
                                      fuel_ok)
       IN  /\ stacks' = [stacks EXCEPT ![cur[i]] = r.stack]
           /\ trap' = [trap EXCEPT ![i] = r.trap]
           /\ pc' = [pc EXCEPT ![i] = r.next]
           /\ pending' = [pending EXCEPT ![i] =
                            IF r.next = "dispatch"
                            THEN [caller |-> RootCaller, host_func |-> call[i].func,
                                  error |-> "none"]
                            ELSE NoPending]
           /\ hist' = [hist EXCEPT ![i] =
                    [op |-> "root", pre |-> stacks[cur[i]], func |-> call[i].func,
                     fuel_ok |-> fuel_ok]]
    /\ UNCHANGED <<pool, call, cur, results, rinv, outcome, snap, nrec, fuel>>
    /\ UNCHANGED tvars

(* ----------------------- the instruction executor --------------------- *)
\* execute_instrs runs the frame on top of the call stack until the root
\* frame returns (WasmOutcome::Return), a host function is called
\* (WasmOutcome::Call) or a trap occurs. Its steps are the actions below.

\* The first n registers of the frame on top of the call stack.
TopRegs(st, n) == [k \in 1..n |-> GetReg(st.values, Peek(st.calls).base_offset, k - 1)]

\* A Wasm function g is called: its frame is allocated and pushed, its
\* params are the caller's first registers; res is where the caller wants
\* the results.
InstrCallWasm(i, g, res) ==
    /\ pc[i] = "exec"
    /\ fuel[i] > 0
    /\ fuel' = [fuel EXCEPT ![i] = @ - 1]
    /\ stacks[cur[i]].calls # <<>>
    /\ g \in WasmCallees(Peek(stacks[cur[i]].calls).func)
    /\ res \in 0..(NumRegs - LenResults(g))
    /\ LET st == stacks[cur[i]]
           fr == AllocCallFrame(st.values, g)
           v2 == FillAt(fr.values, fr.base_ptr, TopRegs(st, LenParams(g)))
       IN  IF fr.ok /\ Len(st.calls) < MaxDepth
           THEN /\ stacks' = [stacks EXCEPT ![cur[i]] =
                        [values |-> v2,
                         calls |-> Append(st.calls, CallFrame(g, fr.frame_ptr, fr.base_ptr, res))]]
                /\ UNCHANGED <<trap, pc>>
           ELSE /\ trap' = [trap EXCEPT ![i] = WasmTrap("StackOverflow")]
                /\ pc' = [pc EXCEPT ![i] = "ret"]
                /\ UNCHANGED stacks
    /\ hist' = [hist EXCEPT ![i] = NoHist]
    /\ snap' = [snap EXCEPT ![i] = NoSnap]
    /\ UNCHANGED <<pool, call, cur, pending, results, rinv, outcome, nrec>>
    /\ EmitStep(i, "Call")

\* The frame on top returns: it is popped, the value stack is truncated to
\* its frame_ptr and its results go to the caller's registers, or to the root
\* result slots when no frame is left (WasmOutcome::Return).
InstrReturn(i) ==
    /\ pc[i] = "exec"
    /\ stacks[cur[i]].calls # <<>>
    /\ LET st == stacks[cur[i]]
           top == Peek(st.calls)
           rets == TopRegs(st, LenResults(top.func))
           rest == Pop(st.calls)
           cut == SubSeq(st.values, 1, top.frame_ptr)
           target == IF rest = <<>> THEN 0 ELSE Peek(rest).base_offset
       IN  /\ stacks' = [stacks EXCEPT ![cur[i]] =
                    [values |-> FillAt(cut, target + top.results, rets), calls |-> rest]]
           /\ pc' = [pc EXCEPT ![i] = IF rest = <<>> THEN "wb" ELSE "exec"]
    /\ hist' = [hist EXCEPT ![i] = NoHist]
    /\ snap' = [snap EXCEPT ![i] = NoSnap]
    /\ UNCHANGED <<pool, call, cur, pending, trap, results, rinv, outcome, nrec, fuel>>
    /\ EmitStep(i, "Return")

\* A host function h is called: its parameter/result buffer of max_inout
\* slots is put on top of the value stack with the params in its prefix, and
\* the executor yields WasmOutcome::Call{results, host_func, call_kind}. A
\* tail call hands on the results span of the calling frame.
InstrCallHost(i, h, call_kind, res) ==
    /\ pc[i] = "exec"
    /\ fuel[i] > 0
    /\ fuel' = [fuel EXCEPT ![i] = @ - 1]
    /\ stacks[cur[i]].calls # <<>>
    /\ LET st == stacks[cur[i]]
           top == Peek(st.calls)
           max_inout == Max(LenParams(h), LenResults(h))
           v1 == ExtendZeros(st.values, max_inout)
           v2 == FillAt(v1, Len(st.values), TopRegs(st, LenParams(h)))
       IN  /\ h \in HostCallees(top.func)
           /\ IF call_kind = "Tail"
              THEN res = top.results /\ LenResults(h) = LenResults(top.func)
              ELSE res \in 0..(NumRegs - LenResults(h))
           /\ IF CanReserve(st.values, max_inout)
              THEN /\ stacks' = [stacks EXCEPT ![cur[i]] = [st EXCEPT !.values = v2]]
                   /\ pending' = [pending EXCEPT ![i] =
                            [caller |-> WasmCaller(res, top.instance), host_func |-> h,
                             call_kind |-> call_kind, error |-> "none"]]
                   /\ pc' = [pc EXCEPT ![i] = "dispatch"]
                   /\ UNCHANGED trap
              ELSE /\ trap' = [trap EXCEPT ![i] = WasmTrap("StackOverflow")]
                   /\ pc' = [pc EXCEPT ![i] = "ret"]
                   /\ UNCHANGED <<stacks, pending>>
    /\ hist' = [hist EXCEPT ![i] = NoHist]
    /\ snap' = [snap EXCEPT ![i] = NoSnap]
    /\ UNCHANGED <<pool, call, cur, results, rinv, outcome, nrec>>
    /\ EmitStep(i, "CallImported")

\* A Wasm trap: execute_compiled_func returns Err, which `?` turns into
\* TaggedTrap::Wasm.
InstrTrap(i) ==
    /\ pc[i] = "exec"
    /\ stacks[cur[i]].calls # <<>>
    /\ trap' = [trap EXCEPT ![i] = WasmTrap("Trap")]
    /\ pc' = [pc EXCEPT ![i] = "ret"]
    /\ hist' = [hist EXCEPT ![i] = NoHist]
    /\ snap' = [snap EXCEPT ![i] = NoSnap]
    /\ UNCHANGED <<pool, stacks, call, cur, pending, results, rinv, outcome, nrec, fuel>>
    /\ EmitStep(i, "Trap")

(* --------------------------- the driver steps -------------------------- *)

\* dispatch_host_func, called by execute_root_func (caller = Root) or by
\* execute_host_func (caller = Wasm): the trampoline succeeds or fails.
DispatchHost(i, ok) ==
    /\ pc[i] = "dispatch"
    /\ LET st == stacks[cur[i]]
           h == pending[i].host_func
           tramp == IF ok THEN [ok |-> TRUE, outs |-> HostOutputs(h, HostInputs(st.values, h))]
                    ELSE [ok |-> FALSE, error |-> "E"]
           d == DispatchHostFunc(st, h, pending[i].caller, tramp)
       IN  /\ stacks' = [stacks EXCEPT ![cur[i]] = d.stack]
           /\ pending' = [pending EXCEPT ![i].error = d.error]
           /\ hist' = [hist EXCEPT ![i] =
                    [op |-> "dispatch", pre |-> st, caller |-> pending[i].caller,
                     host_func |-> h, tramp |-> tramp]]
           /\ snap' = [snap EXCEPT ![i] =
                    IF pending[i].caller.tag = "Wasm"
                    THEN [tag |-> "some", stack |-> st, host_func |-> h,
                          results |-> pending[i].caller.results,
                          instance |-> pending[i].caller.instance,
                          call_kind |-> pending[i].call_kind]
                    ELSE NoSnap]
    /\ pc' = [pc EXCEPT ![i] = "dispatched"]
    /\ UNCHANGED <<pool, call, cur, trap, results, rinv, outcome, nrec, fuel>>
    /\ UNCHANGED tvars

\* Faulty variant of RootHostReturn: the error of a root host function is
\* wrapped as a host trap.
RootHostReturn_AsHostTrap(i) ==
    /\ pc[i] = "dispatched"
    /\ pending[i].caller.tag = "Root"
    /\ trap' = [trap EXCEPT ![i] =
            IF pending[i].error = "none" THEN NoTrap
            ELSE HostTrap(pending[i].host_func, pending[i].error, 0)]
    /\ pc' = [pc EXCEPT ![i] = IF pending[i].error = "none" THEN "wb" ELSE "ret"]
    /\ pending' = [pending EXCEPT ![i] = NoPending]
    /\ hist' = [hist EXCEPT ![i] = NoHist]
    /\ UNCHANGED <<pool, stacks, call, cur, results, rinv, outcome, snap, nrec, fuel>>
    /\ UNCHANGED tvars

\* execute_root_func after dispatch_host_func(.., Root)?: an error returns
\* as TaggedTrap::Wasm, success goes on to write_results_back.
RootHostReturn(i) ==
    /\ pc[i] = "dispatched"
    /\ pending[i].caller.tag = "Root"
    /\ trap' = [trap EXCEPT ![i] =
            IF pending[i].error = "none" THEN NoTrap ELSE WasmTrap(pending[i].error)]
    /\ pc' = [pc EXCEPT ![i] = IF pending[i].error = "none" THEN "wb" ELSE "ret"]
    /\ pending' = [pending EXCEPT ![i] = NoPending]
    /\ hist' = [hist EXCEPT ![i] = NoHist]
    /\ UNCHANGED <<pool, stacks, call, cur, results, rinv, outcome, snap, nrec, fuel>>
    /\ UNCHANGED tvars

\* Faulty variant of HostFuncReturn: the error is wrapped with respect to the
\* call stack before the tail call's pop.
HostFuncReturn_WrapBeforePop(i) ==
    /\ pc[i] = "dispatched"
    /\ pending[i].caller.tag = "Wasm"
    /\ LET st == stacks[cur[i]]
           calls1 == PopForCallKind(st.calls, pending[i].call_kind)
           t == WrapHostResult(st.calls, pending[i].error, pending[i].host_func,
                               pending[i].caller.results)
       IN  /\ stacks' = [stacks EXCEPT ![cur[i]] = [st EXCEPT !.calls = calls1]]
           /\ trap' = [trap EXCEPT ![i] = t]
           /\ pc' = [pc EXCEPT ![i] = IF t.tag = "None" THEN "exec" ELSE "ret"]
           /\ hist' = [hist EXCEPT ![i] =
                    [op |-> "host_return", pre |-> st, call_kind |-> pending[i].call_kind,
                     error |-> pending[i].error, host_func |-> pending[i].host_func,
                     results |-> pending[i].caller.results]]
    /\ pending' = [pending EXCEPT ![i] = NoPending]
    /\ UNCHANGED <<pool, call, cur, results, rinv, outcome, snap, nrec, fuel>>
    /\ UNCHANGED tvars

\* Faulty variant of HostFuncReturn: after a successful host call the same
\* Call outcome is dispatched once more while there is room for its buffer.
HostFuncReturn_DispatchesAgain(i) ==
    /\ pc[i] = "dispatched"
    /\ pending[i].caller.tag = "Wasm"
    /\ LET st == stacks[cur[i]]
           h == pending[i].host_func
           max_inout == Max(LenParams(h), LenResults(h))
           again == pending[i].error = "none" /\ pending[i].call_kind = "Normal"
                        /\ hist[i].op = "dispatch" /\ CanReserve(st.values, max_inout + 1)
           calls1 == PopForCallKind(st.calls, pending[i].call_kind)
           t == WrapHostResult(calls1, pending[i].error, pending[i].host_func,
                               pending[i].caller.results)
       IN  IF again
           THEN /\ stacks' = [stacks EXCEPT ![cur[i]] =
                        [st EXCEPT !.values = ExtendZeros(@, max_inout + 1)]]
                /\ pc' = [pc EXCEPT ![i] = "dispatch"]
                /\ hist' = [hist EXCEPT ![i] = NoHist]
                /\ UNCHANGED <<trap, pending>>
           ELSE /\ stacks' = [stacks EXCEPT ![cur[i]] = [st EXCEPT !.calls = calls1]]
                /\ trap' = [trap EXCEPT ![i] = t]
                /\ pc' = [pc EXCEPT ![i] = IF t.tag = "None" THEN "exec" ELSE "ret"]
                /\ hist' = [hist EXCEPT ![i] =
                        [op |-> "host_return", pre |-> st,
                         call_kind |-> pending[i].call_kind,
                         error |-> pending[i].error, host_func |-> pending[i].host_func,
                         results |-> pending[i].caller.results]]
                /\ pending' = [pending EXCEPT ![i] = NoPending]
    /\ UNCHANGED <<pool, call, cur, results, rinv, outcome, snap, nrec, fuel>>
    /\ UNCHANGED tvars

\* execute_host_func after dispatch_host_func: the tail call's pop and the
\* wrapping of the error; on success the pump loop goes round.
HostFuncReturn(i) ==
    /\ pc[i] = "dispatched"
    /\ pending[i].caller.tag = "Wasm"
    /\ LET st == stacks[cur[i]]
           calls1 == PopForCallKind(st.calls, pending[i].call_kind)
           t == WrapHostResult(calls1, pending[i].error, pending[i].host_func,
                               pending[i].caller.results)
       IN  /\ stacks' = [stacks EXCEPT ![cur[i]] = [st EXCEPT !.calls = calls1]]
           /\ trap' = [trap EXCEPT ![i] = t]
           /\ pc' = [pc EXCEPT ![i] = IF t.tag = "None" THEN "exec" ELSE "ret"]
           /\ hist' = [hist EXCEPT ![i] =
                    [op |-> "host_return", pre |-> st, call_kind |-> pending[i].call_kind,
                     error |-> pending[i].error, host_func |-> pending[i].host_func,
                     results |-> pending[i].caller.results]]
    /\ pending' = [pending EXCEPT ![i] = NoPending]
    /\ UNCHANGED <<pool, call, cur, results, rinv, outcome, snap, nrec, fuel>>
    /\ UNCHANGED tvars

\* write_results_back, after the pump loop or the root host dispatch.
WriteBack(i) ==
    /\ pc[i] = "wb"
    /\ results' = [results EXCEPT ![i] =
            WriteResultsBack(stacks[cur[i]].values, LenResults(call[i].func))]
    /\ trap' = [trap EXCEPT ![i] = NoTrap]
    /\ pc' = [pc EXCEPT ![i] = "ret"]
    /\ hist' = [hist EXCEPT ![i] = [op |-> "write_results_back"]]
    /\ snap' = [snap EXCEPT ![i] = NoSnap]
    /\ UNCHANGED <<pool, stacks, call, cur, pending, rinv, outcome, nrec, fuel>>
    /\ UNCHANGED tvars

(* ------------------- the end of an engine operation -------------------- *)

\* Faulty variant of ExecuteFuncRecycles: a host trap keeps the Stack.
ExecuteFuncRecycles_ExceptHost(t) == t.tag # "Host"

\* execute_func and execute_func_with_trace recycle the Stack whatever the
\* result is.
ExecuteFuncRecycles(t) == TRUE

\* execute_func_resumable: Ok and TaggedTrap::Wasm recycle the Stack,
\* TaggedTrap::Host moves it into the ResumableInvocation.
ResumableRecycles(t) == t.tag # "Host"

\* Faulty variant of ResumeRecycles: the Stack is recycled after a host trap
\* too.
ResumeRecycles_Always(t) == TRUE

\* resume_func: Ok and TaggedTrap::Wasm recycle the Stack taken from the
\* invocation, TaggedTrap::Host updates the invocation, which keeps it.
ResumeRecycles(t) == t.tag # "Host"

\* The end of an engine operation: the Stack goes to the pool under its lock
\* and the result is returned, or the Stack stays with the invocation.
FinishWith(i, recycles) ==
    /\ pc[i] = "ret"
    /\ LET s == cur[i]
           t == trap[i]
       IN  IF recycles
           THEN /\ pool' = Recycle(pool, s)
                /\ nrec' = [nrec EXCEPT ![i] = @ + 1]
                /\ rinv' = [rinv EXCEPT ![i] = NoRinv]
                /\ outcome' = [outcome EXCEPT ![i] =
                        IF t.tag = "None" THEN [tag |-> "Finished", results |-> results[i]]
                        ELSE [tag |-> "Err", error |-> IntoError(t)]]
                /\ pc' = [pc EXCEPT ![i] = "done"]
                /\ call' = [call EXCEPT ![i] = NoCall]
                /\ fuel' = [fuel EXCEPT ![i] = 0]
           ELSE /\ rinv' = [rinv EXCEPT ![i] =
                        [tag |-> "some", func |-> call[i].func, host_func |-> t.host_func,
                         host_error |-> t.host_error, caller_results |-> t.caller_results,
                         stack |-> s]]
                /\ outcome' = [outcome EXCEPT ![i] = [tag |-> "Resumable"]]
                /\ pc' = [pc EXCEPT ![i] = "parked"]
                /\ UNCHANGED <<pool, nrec, call, fuel>>
    /\ cur' = [cur EXCEPT ![i] = 0]
    /\ trap' = [trap EXCEPT ![i] = NoTrap]
    /\ results' = [results EXCEPT ![i] = <<>>]
    /\ hist' = [hist EXCEPT ![i] =
            [op |-> "finish", api |-> call[i].api, func |-> call[i].func,
             stack |-> cur[i], trap |-> trap[i], prev |-> rinv[i]]]
    /\ UNCHANGED <<stacks, pending, snap>>
    /\ UNCHANGED tvars

ExecuteFuncFinish(i) ==
    /\ call[i].api \in {"execute_func", "execute_func_with_trace"}
    /\ FinishWith(i, ExecuteFuncRecycles(trap[i]))

ResumableFinish(i) ==
    /\ call[i].api = "execute_func_resumable"
    /\ FinishWith(i, ResumableRecycles(trap[i]))

ResumeFinish(i) ==
    /\ call[i].api = "resume_func"
    /\ FinishWith(i, ResumeRecycles(trap[i]))

\* EngineInner::resume_func and EngineExecutor::resume_func up to the pump
\* loop: the executor borrows the invocation's Stack and writes the supplied
\* values v to the caller's result registers.
ResumeFunc(i, v) ==
    /\ pc[i] = "parked"
    /\ v \in ResumeValues(rinv[i].host_func)
    /\ LET s == rinv[i].stack
           st == stacks[s]
       IN  /\ cur' = [cur EXCEPT ![i] = s]
           /\ IF st.calls = <<>>
              THEN /\ pc' = [pc EXCEPT ![i] = "panic"]
                   /\ UNCHANGED stacks
              ELSE /\ pc' = [pc EXCEPT ![i] = "exec"]
                   /\ stacks' = [stacks EXCEPT ![s] =
                            ResumeFuncWrite(st, v, rinv[i].caller_results)]
           /\ hist' = [hist EXCEPT ![i] =
                    [op |-> "resume", pre |-> st, v |-> v,
                     caller_results |-> rinv[i].caller_results, snap |-> snap[i]]]
    /\ call' = [call EXCEPT ![i].api = "resume_func", ![i].params = v]
    /\ outcome' = [outcome EXCEPT ![i] = NoOutcome]
    /\ trap' = [trap EXCEPT ![i] = NoTrap]
    /\ snap' = [snap EXCEPT ![i] = NoSnap]
    /\ UNCHANGED <<pool, pending, results, rinv, nrec, fuel>>
    /\ UNCHANGED tvars

(* ------------------------ the tracer operations ------------------------ *)

\* The state of the engine.
evars == <<pool, stacks, pc, call, cur, pending, trap, results, rinv, outcome, hist, snap,
           nrec, fuel>>

\* The number of entries of the IMTable that are globals.
NumGlobals(imtable) ==
    Cardinality({k \in 1..Len(imtable) : imtable[k].ltype = "Global"})

\* ETable::push on the ETable of Tracer t.
ETablePushStep(t, allocated_memory_pages, step_info) ==
    /\ Len(tracer[t].etable) < MaxEvents
    /\ tracer' = [tracer EXCEPT ![t].etable =
                    ETablePush(@, allocated_memory_pages, step_info)]
    /\ mtable' = [mtable EXCEPT ![t] = NoMTable]
    /\ tlast' = [op |-> "push", t |-> t, pre |-> tracer[t], prev |-> mtable[t]]
    /\ UNCHANGED evars

\* Tracer::get_mtable on Tracer t: the MTable is handed to the caller.
GetMTableCall(t) ==
    /\ mtable' = [mtable EXCEPT ![t] = [tag |-> "some", entries |-> GetMTable(tracer[t])]]
    /\ tlast' = [op |-> "get_mtable", t |-> t, pre |-> tracer[t], prev |-> mtable[t]]
    /\ UNCHANGED tracer
    /\ UNCHANGED evars

\* Tracer::push_global on Tracer t, for the next global of the instance.
PushGlobal(t, g) ==
    /\ NumGlobals(tracer[t].imtable) < MaxGlobals
    /\ tracer' = [tracer EXCEPT ![t].imtable =
                    PushGlobalEntry(@, NumGlobals(tracer[t].imtable), g)]
    /\ tlast' = [op |-> "push_global", t |-> t, pre |-> tracer[t], prev |-> mtable[t]]
    /\ UNCHANGED mtable
    /\ UNCHANGED evars

\* Whether the words of a memory are in the IMTable.
HasHeap(imtable) == \E k \in 1..Len(imtable) : imtable[k].ltype = "Heap"

\* Tracer::push_init_memory on Tracer t, before the execution starts.
PushInitMemory(t, mem, overflow_checks) ==
    /\ ~HasHeap(tracer[t].imtable)
    /\ LET r == PushInitMemoryEntries(tracer[t].imtable, mem, overflow_checks)
       IN  /\ tracer' = [tracer EXCEPT ![t].imtable = r.imtable]
           /\ tlast' = [op |-> "push_init_memory", t |-> t, pre |-> tracer[t],
                        prev |-> mtable[t], mem |-> mem, panicked |-> r.panicked]
    /\ UNCHANGED mtable
    /\ UNCHANGED evars

(* --------------------------- the specification ------------------------- *)

\* The steps of invocation i after its start.
Step(i) ==
        \/ \E fuel_ok \in BOOLEAN : ExecuteRootFunc(i, fuel_ok)
        \/ \E g \in WasmFuncs, res \in 0..NumRegs : InstrCallWasm(i, g, res)
        \/ InstrReturn(i)
        \/ \E h \in HostFuncs, k \in {"Normal", "Tail"}, res \in 0..NumRegs :
                InstrCallHost(i, h, k, res)
        \/ InstrTrap(i)
        \/ \E ok \in BOOLEAN : DispatchHost(i, ok)
        \/ RootHostReturn(i)
        \/ HostFuncReturn(i)
        \/ WriteBack(i)
        \/ ExecuteFuncFinish(i)
        \/ ResumableFinish(i)
        \/ ResumeFinish(i)
        \/ \E v \in AllResumeValues : ResumeFunc(i, v)

\* One embedder thread runs the engine operations, one at a time.
Next ==
    \E i \in {1} :
        \/ \E api \in StartApis, f \in Funcs : Start(i, api, f, MaxFuel)
        \/ Step(i)

Spec == Init /\ [][Next]_vars

\* The functions and operations the concurrent threads use.
ConcFuncs == {"wNil", "hEcho"}
ConcApis == {"execute_func", "execute_func_resumable"}

\* Several threads run engine operations on the one engine concurrently.
NextConc ==
    \E i \in Inv :
        \/ \E api \in ConcApis, f \in ConcFuncs : Start(i, api, f, ConcFuel)
        \/ Step(i)

SpecConc == Init /\ [][NextConc]_vars

\* The embedder fills Tracers and derives their MTables; the globals of the
\* instance are recorded in the first Tracer only.
NextTracer ==
    \E t \in Tracers :
        \/ \E step_info \in StepInfos : ETablePushStep(t, 1, step_info)
        \/ GetMTableCall(t)
        \/ \E g \in Globals : t = "t1" /\ PushGlobal(t, g)

SpecTracer == Init /\ [][NextTracer]_vars

\* The embedder records the initial memory and the globals of an instance
\* in one Tracer. A build without overflow checks differs from one with them
\* only where the arithmetic overflows.
NextIMTable ==
    \E t \in {"t1"} :
        \/ \E mem \in LegalMemories, overflow_checks \in BOOLEAN :
                /\ overflow_checks \/ TerminatorEnd(mem.maximum_pages).overflow
                /\ PushInitMemory(t, mem, overflow_checks)
        \/ \E g \in Globals : PushGlobal(t, g)

SpecIMTable == Init /\ [][NextIMTable]_vars

(* ------------------------------ properties ----------------------------- *)

Range(seq) == {seq[k] : k \in 1..Len(seq)}

MaxInout(h) == Max(LenParams(h), LenResults(h))

\* The Stack the executor of invocation i works on.
CurStack(i) == stacks[cur[i]]

\* C1: for every invocation that ends in success, the value stack has length
\* 0 right after write_results_back has returned.
C1_EmptyAfterWriteBack ==
    \A i \in Inv :
        hist[i].op = "write_results_back" => Len(CurStack(i).values) = 0

\* C2: a host failure reaching the pump loop is wrapped as TaggedTrap::Host
\* {host_func, host_error, caller_results} iff a frame remains on the call
\* stack once a Tail call's caller frame has been popped (no pop for a Normal
\* call), and as TaggedTrap::Wasm otherwise.
C2_HostTrapIffFrameRemains ==
    \A i \in Inv :
        (hist[i].op = "host_return" /\ hist[i].error # "none") =>
            LET remaining == Len(hist[i].pre.calls)
                                - (IF hist[i].call_kind = "Tail" THEN 1 ELSE 0)
            IN  /\ Len(CurStack(i).calls) = remaining
                /\ IF remaining > 0
                   THEN trap[i] = [tag |-> "Host", host_func |-> hist[i].host_func,
                                   host_error |-> hist[i].error,
                                   caller_results |-> hist[i].results]
                   ELSE trap[i] = [tag |-> "Wasm", error |-> hist[i].error]

\* C2 witness: a Tail call two frames deep failed, one frame remains and the
\* trap is a host trap.
C2_Witness ==
    \E i \in Inv :
        /\ hist[i].op = "host_return" /\ hist[i].error # "none"
        /\ hist[i].call_kind = "Tail"
        /\ Len(hist[i].pre.calls) = 2
        /\ trap[i].tag = "Host"

\* C3: when the trampoline fails, for a Root caller and for a Wasm caller, the
\* top max_inout slots are dropped exactly once: at the exit of
\* dispatch_host_func the value stack is its entry content without them.
C3_FailedDispatchDropsBuffer ==
    \A i \in Inv :
        (hist[i].op = "dispatch" /\ ~hist[i].tramp.ok) =>
            /\ Len(CurStack(i).values)
                  = Len(hist[i].pre.values) - MaxInout(hist[i].host_func)
            /\ CurStack(i).values
                  = SubSeq(hist[i].pre.values, 1, Len(CurStack(i).values))
            /\ pending[i].error = "E"

\* C3 witness: a failed dispatch of a root host call with a buffer of 2 slots.
C3_Witness ==
    \E i \in Inv :
        /\ hist[i].op = "dispatch" /\ ~hist[i].tramp.ok
        /\ hist[i].caller.tag = "Root"
        /\ MaxInout(hist[i].host_func) = 2
        /\ Len(CurStack(i).values) = 0

\* The effect of dispatch_host_func on the value-stack length, measured
\* against the length before the parameter/result buffer was added.
DispatchGrowth(i) ==
    Len(CurStack(i).values)
        - (Len(hist[i].pre.values) - MaxInout(hist[i].host_func))

\* C4 as stated: unchanged for a Wasm caller, larger by len_outputs for a Root
\* caller on success, unchanged for a Root caller on failure.
C4_Original ==
    \A i \in Inv :
        hist[i].op = "dispatch" =>
            DispatchGrowth(i) =
                IF hist[i].caller.tag = "Root" /\ hist[i].tramp.ok
                THEN LenResults(hist[i].host_func)
                ELSE 0

\* C4 as amended: unchanged for a Wasm caller (success or failure) and for a
\* Root caller on failure; for a Root caller on success the whole buffer stays,
\* so the length is larger by max_inout = max(len_inputs, len_outputs).
C4_DispatchLengthEffect ==
    \A i \in Inv :
        hist[i].op = "dispatch" =>
            DispatchGrowth(i) =
                IF hist[i].caller.tag = "Root" /\ hist[i].tramp.ok
                THEN MaxInout(hist[i].host_func)
                ELSE 0

\* C4 witness: a successful root dispatch of a host function with 2 inputs and
\* 1 output leaves 2 slots.
C4_Witness ==
    \E i \in Inv :
        /\ hist[i].op = "dispatch" /\ hist[i].tramp.ok
        /\ hist[i].caller.tag = "Root"
        /\ LenParams(hist[i].host_func) = 2 /\ LenResults(hist[i].host_func) = 1
        /\ DispatchGrowth(i) = 2

\* C5: after a successful dispatch with caller = Wasm{results, ..}, register
\* results + k of the frame on top of the call stack holds what the trampoline
\* left in slot k of its buffer (k < len_outputs), every other slot below the
\* buffer is unchanged, and the buffer is gone.
C5_ResultsCopiedToCaller ==
    \A i \in Inv :
        (hist[i].op = "dispatch" /\ hist[i].tramp.ok /\ hist[i].caller.tag = "Wasm") =>
            LET pre == hist[i].pre
                h == hist[i].host_func
                first == Peek(pre.calls).base_offset + hist[i].caller.results
                now == CurStack(i).values
            IN  /\ Len(now) = Len(pre.values) - MaxInout(h)
                /\ CurStack(i).calls = pre.calls
                /\ \A o \in 0..(Len(now) - 1) :
                      now[o + 1] = IF o >= first /\ o < first + LenResults(h)
                                   THEN hist[i].tramp.outs[o - first + 1]
                                   ELSE pre.values[o + 1]
                /\ first + LenResults(h) <= Len(now)

\* C5 witness: two results were copied to registers 0 and 1 of a frame whose
\* registers start above its frame_ptr.
C5_Witness ==
    \E i \in Inv :
        /\ hist[i].op = "dispatch" /\ hist[i].tramp.ok /\ hist[i].caller.tag = "Wasm"
        /\ LenResults(hist[i].host_func) = 2
        /\ Peek(hist[i].pre.calls).base_offset > Peek(hist[i].pre.calls).frame_ptr
        /\ GetReg(CurStack(i).values, Peek(CurStack(i).calls).base_offset, 1) = 42

\* C6: a host function reached by a Tail call from the outermost (only) frame
\* fails: execute_func_resumable returns Err with the host error, no
\* ResumableInvocation, and the Stack is in the pool.
C6_RootTailHostFailureIsFinal ==
    \A i \in Inv :
        ( /\ hist[i].op = "finish"
          /\ hist[i].api = "execute_func_resumable"
          /\ hist[i].trap.tag # "None"
          /\ snap[i].tag = "some"
          /\ snap[i].call_kind = "Tail"
          /\ Len(snap[i].stack.calls) = 1 ) =>
            /\ hist[i].trap = [tag |-> "Wasm", error |-> "E"]
            /\ outcome[i] = [tag |-> "Err", error |-> "E"]
            /\ pc[i] = "done"
            /\ rinv[i] = NoRinv
            /\ cur[i] = 0
            /\ hist[i].stack \in Range(pool)

\* C6 witness: execute_func_resumable has returned after such a failure.
C6_Witness ==
    \E i \in Inv :
        /\ hist[i].op = "finish"
        /\ hist[i].api = "execute_func_resumable"
        /\ hist[i].trap.tag # "None"
        /\ snap[i].tag = "some"
        /\ snap[i].call_kind = "Tail"
        /\ Len(snap[i].stack.calls) = 1
        /\ outcome[i].tag = "Err"

\* The number of times Stack s is in the pool.
TimesInPool(s) == Cardinality({k \in 1..Len(pool) : pool[k] = s})

\* C7: an engine operation that ends in a finished result or Err has returned
\* its Stack to the pool exactly once; one that ends in Resumable has returned
\* none, the Stack being owned by the ResumableInvocation; execute_func and
\* execute_func_with_trace always end in a terminal outcome. Over start,
\* resume, resume, .. no Stack is recycled twice and none is lost.
C7_StackRecycledExactlyOnce ==
    /\ \A s \in StackIds : TimesInPool(s) <= 1
    /\ \A i \in Inv :
        /\ pc[i] = "done" =>
              /\ outcome[i].tag \in {"Finished", "Err"}
              /\ nrec[i] = 1
              /\ cur[i] = 0 /\ rinv[i] = NoRinv
              /\ hist[i].stack \in Range(pool)
        /\ pc[i] = "parked" =>
              /\ outcome[i].tag = "Resumable"
              /\ nrec[i] = 0
              /\ rinv[i].tag = "some"
              /\ rinv[i].stack = hist[i].stack
              /\ rinv[i].stack \notin Range(pool)
              /\ call[i].api \in {"execute_func_resumable", "resume_func"}
        /\ pc[i] \notin {"idle", "done", "parked"} =>
              /\ nrec[i] = 0
              /\ cur[i] # 0 /\ cur[i] \notin Range(pool)

\* C7 witness: an invocation that trapped resumably, was resumed and finished
\* has recycled its Stack once.
C7_Witness ==
    \E i \in Inv :
        /\ pc[i] = "done"
        /\ hist[i].op = "finish" /\ hist[i].api = "resume_func"
        /\ outcome[i].tag = "Finished"
        /\ nrec[i] = 1
        /\ hist[i].stack \in Range(pool)

\* The invocations that own Stack s: their executor borrows it, or their
\* ResumableInvocation holds it.
Owners(s) ==
    {i \in Inv : cur[i] = s \/ (rinv[i].tag = "some" /\ rinv[i].stack = s)}

\* C8: under every interleaving of concurrent invocations no Stack is held by
\* two invocations at once, and a Stack held by an in-flight invocation or
\* parked in a ResumableInvocation is not in the pool.
C8_StacksMutuallyExclusive ==
    \A s \in StackIds :
        /\ Cardinality(Owners(s)) <= 1
        /\ Owners(s) # {} => s \notin Range(pool)
        /\ TimesInPool(s) <= 1

\* C8 witness: one invocation is parked on a Stack, another one has just
\* taken a second, recycled Stack from the pool.
C8_Witness ==
    \E i, j \in Inv :
        /\ i # j
        /\ pc[i] = "parked"
        /\ pc[j] = "root" /\ cur[j] # 0 /\ cur[j] # rinv[i].stack
        /\ hist[j].op = "start" /\ ~hist[j].new
        /\ stacks[rinv[i].stack].calls # <<>>

\* What the Stack would be when the pump loop goes round had the host function
\* of the dispatch recorded in sn returned the values v: dispatch_host_func
\* succeeds, then execute_host_func pops for a tail call.
DirectReturn(sn, v) ==
    LET d == DispatchHostFunc(sn.stack, sn.host_func,
                              WasmCaller(sn.results, sn.instance),
                              [ok |-> TRUE, outs |-> v])
    IN  [d.stack EXCEPT !.calls = PopForCallKind(@, sn.call_kind)]

\* C9: when a host call trapped resumably and is resumed with values v, the
\* value stack and the call stack with which the pump loop is re-entered are
\* those of the same invocation had the host function returned v, for calls of
\* kind Normal and Tail.
C9_ResumeEqualsDirectReturn ==
    \A i \in Inv :
        (hist[i].op = "resume" /\ pc[i] = "exec") =>
            CurStack(i) = DirectReturn(hist[i].snap, hist[i].v)

\* C10: resume_func writes value k to register caller_results + k of the frame
\* on top of the parked call stack, changes no other slot, leaves the length
\* of the value stack and the call stack as they were, and then goes into the
\* pump loop.
C10_ResumeWritesCallerResults ==
    \A i \in Inv :
        hist[i].op = "resume" =>
            LET pre == hist[i].pre
                first == Peek(pre.calls).base_offset + hist[i].caller_results
                v == hist[i].v
                now == CurStack(i).values
            IN  /\ pre.calls # <<>>
                /\ pc[i] = "exec"
                /\ CurStack(i).calls = pre.calls
                /\ Len(now) = Len(pre.values)
                /\ first + Len(v) <= Len(now)
                /\ \A o \in 0..(Len(now) - 1) :
                      now[o + 1] = IF o >= first /\ o < first + Len(v)
                                   THEN v[o - first + 1]
                                   ELSE pre.values[o + 1]

\* C10 witness: two values were written to the registers of a parked frame
\* whose registers start above its frame_ptr.
C10_Witness ==
    \E i \in Inv :
        /\ hist[i].op = "resume" /\ pc[i] = "exec"
        /\ Len(hist[i].v) = 2
        /\ Peek(hist[i].pre.calls).base_offset > Peek(hist[i].pre.calls).frame_ptr
        /\ GetReg(CurStack(i).values, Peek(CurStack(i).calls).base_offset,
                  hist[i].caller_results + 1) = hist[i].v[2]
        /\ hist[i].pre.values # CurStack(i).values

\* The outputs of the host function of the dispatch recorded in sn.
SnapOutputs(sn) == HostOutputs(sn.host_func, HostInputs(sn.stack.values, sn.host_func))

\* C11: for a host function reached by a Tail call the order is: read the
\* base_offset of the caller frame, copy the results to the caller's result
\* registers, pop the caller frame. When dispatch_host_func has returned the
\* caller frame is still on the call stack and, on success, its result
\* registers hold the outputs; the pop that follows changes no value, and on
\* failure nothing was copied and the frame is popped after the dispatch too.
C11_TailCopyBeforePop ==
    \A i \in Inv :
        /\ (hist[i].op = "dispatch" /\ hist[i].caller.tag = "Wasm"
                /\ snap[i].call_kind = "Tail") =>
              LET pre == hist[i].pre
                  caller_sp == Peek(pre.calls).base_offset
              IN  /\ CurStack(i).calls = pre.calls
                  /\ hist[i].tramp.ok =>
                        \A k \in 0..(LenResults(hist[i].host_func) - 1) :
                            GetReg(CurStack(i).values, caller_sp,
                                   hist[i].caller.results + k) = hist[i].tramp.outs[k + 1]
                  /\ ~hist[i].tramp.ok =>
                        CurStack(i).values
                            = SubSeq(pre.values, 1, Len(CurStack(i).values))
        /\ (hist[i].op = "host_return" /\ hist[i].call_kind = "Tail") =>
              LET pre == hist[i].pre
                  caller_sp == Peek(pre.calls).base_offset
              IN  /\ pre.calls = snap[i].stack.calls
                  /\ CurStack(i).calls = Pop(pre.calls)
                  /\ CurStack(i).values = pre.values
                  /\ hist[i].error = "none" =>
                        \A k \in 0..(LenResults(hist[i].host_func) - 1) :
                            GetReg(CurStack(i).values, caller_sp, hist[i].results + k)
                                = SnapOutputs(snap[i])[k + 1]

\* C11 witness: a Tail call two frames deep succeeded; the caller frame has
\* been popped and its result registers hold the two outputs.
C11_Witness ==
    \E i \in Inv :
        /\ hist[i].op = "host_return" /\ hist[i].call_kind = "Tail"
        /\ hist[i].error = "none"
        /\ Len(hist[i].pre.calls) = 2 /\ Len(CurStack(i).calls) = 1
        /\ LenResults(hist[i].host_func) = 2
        /\ GetReg(CurStack(i).values, Peek(hist[i].pre.calls).base_offset,
                  hist[i].results + 1) = 42

\* C12: after any sequence of ETable::push on an initially empty ETable the
\* entry at position i (0-based) has eid = i + 1, so the first eid is 1 and
\* consecutive eids differ by 1; a push appends one entry and leaves the
\* entries before it as they were.
C12_EidIsPositionPlusOne ==
    /\ \A t \in Tracers :
          \A k \in 1..Len(tracer[t].etable) : tracer[t].etable[k].eid = k
    /\ tlast.op = "push" =>
          LET now == tracer[tlast.t].etable
              pre == tlast.pre.etable
          IN  /\ Len(now) = Len(pre) + 1
              /\ SubSeq(now, 1, Len(pre)) = pre
              /\ now[Len(now)].eid = Len(pre) + 1
    /\ tlast.op \notin {"none", "push"} =>
          tracer[tlast.t].etable = tlast.pre.etable

\* C12 witness: a second entry was pushed and has eid 2 behind eid 1.
C12_Witness ==
    /\ tlast.op = "push"
    /\ Len(tracer[tlast.t].etable) = 2
    /\ tracer[tlast.t].etable[1].eid = 1
    /\ tracer[tlast.t].etable[2].eid = 2

\* The Tracers whose MTable the caller holds.
Derived == {t \in Tracers : mtable[t].tag = "some"}

\* C13: in the MTable returned by get_mtable every entry's emid is one more
\* than the emid of the entry before it, also from the last entry of one
\* event to the first entry of the next event.
C13_EmidThreadedAcrossEvents ==
    \A t \in Derived :
        \A k \in 2..Len(mtable[t].entries) :
            mtable[t].entries[k].emid = mtable[t].entries[k - 1].emid + 1

\* The I32BinOp entries of an ETable, in order.
IsBinOp(e) == e.step_info.tag = "I32BinOp"
BinOpEvents(etable) == SelectSeq(etable, IsBinOp)

\* C14: for the j-th I32BinOp event of the ETable the MTable holds, at
\* positions 3j-2, 3j-1 and 3j, Read(left), Read(right) and Write(result) with
\* the event's eid, location Stack, the operand's addr and value and
\* consecutive emids; an Unimplemented event contributes nothing, so the
\* MTable has 3 entries per I32BinOp event.
C14_ThreeEntriesPerBinOp ==
    \A t \in Derived :
        LET m == mtable[t].entries
            ev == BinOpEvents(tracer[t].etable)
            Is(x, atype, ival, eid) ==
                /\ x.eid = eid /\ x.atype = atype /\ x.ltype = "Stack"
                /\ x.addr = ival.addr /\ x.value = ival.val
        IN  /\ Len(m) = 3 * Len(ev)
            /\ \A j \in 1..Len(ev) :
                  /\ Is(m[3 * j - 2], "Read", ev[j].step_info.left, ev[j].eid)
                  /\ Is(m[3 * j - 1], "Read", ev[j].step_info.right, ev[j].eid)
                  /\ Is(m[3 * j], "Write", ev[j].step_info.result, ev[j].eid)
                  /\ m[3 * j - 1].emid = m[3 * j - 2].emid + 1
                  /\ m[3 * j].emid = m[3 * j - 1].emid + 1

\* C14 witness: an ETable of an Unimplemented and an I32BinOp event gave an
\* MTable of 3 entries carrying eid 2.
C14_Witness ==
    \E t \in Derived :
        /\ Len(tracer[t].etable) = 2
        /\ tracer[t].etable[1].step_info.tag = "Unimplemented"
        /\ tracer[t].etable[2].step_info.tag = "I32BinOp"
        /\ Len(mtable[t].entries) = 3
        /\ mtable[t].entries[3].eid = 2 /\ mtable[t].entries[3].atype = "Write"

WordAt(mem, o) ==
    [l \in 1..4 |-> MemByte(mem, o + 2 * (l - 1)) + 256 * MemByte(mem, o + 2 * (l - 1) + 1)]

C17_TerminatorEndOffset ==
    tlast.op = "push_init_memory" =>
        LET maximum_pages == tlast.mem.maximum_pages
            now == tracer[tlast.t].imtable
        IN  /\ ~tlast.panicked
            /\ Len(now) > 0
            /\ IF ~maximum_pages.some
               THEN now[Len(now)].end_offset = U32Max
               ELSE /\ maximum_pages.pages * WordsPerPage - 1 >= 0
                    /\ now[Len(now)].end_offset
                          = U32(maximum_pages.pages * WordsPerPage - 1)

\* C18: in a root call to a Wasm function whose compiled body was fetched,
\* once the len_results result slots are reserved the callee's frame is
\* allocated iff frame_size is at most the remaining capacity (so a frame of
\* exactly the remaining capacity succeeds, one slot more fails with
\* StackOverflow); on the failure no CallFrame is pushed, and the operation
\* ends in Err(StackOverflow) without a ResumableInvocation and with the
\* Stack in the pool.
C18_RootFrameBoundary ==
    \A i \in Inv :
        /\ (hist[i].op = "root" /\ hist[i].func \in WasmFuncs /\ hist[i].fuel_ok) =>
              LET f == hist[i].func
                  remaining == MaxValues - LenResults(f)
              IN  IF FrameSize(f) <= remaining
                  THEN /\ pc[i] = "exec" /\ trap[i] = NoTrap
                       /\ Len(CurStack(i).calls) = 1
                       /\ Len(CurStack(i).values) = LenResults(f) + FrameSize(f)
                  ELSE /\ pc[i] = "ret" /\ trap[i] = WasmTrap("StackOverflow")
                       /\ CurStack(i).calls = <<>>
                       /\ Len(CurStack(i).values) = LenResults(f)
        /\ (hist[i].op = "finish" /\ hist[i].trap = WasmTrap("StackOverflow")) =>
              /\ outcome[i] = [tag |-> "Err", error |-> "StackOverflow"]
              /\ pc[i] = "done" /\ rinv[i] = NoRinv /\ cur[i] = 0
              /\ hist[i].stack \in Range(pool)

\* C18 witness: the root call of the function whose frame is one slot larger
\* than the remaining capacity has ended in Err(StackOverflow): no frame is
\* on the call stack of its Stack, which is in the pool.
C18_Witness ==
    \E i \in Inv :
        /\ hist[i].op = "finish" /\ hist[i].trap = WasmTrap("StackOverflow")
        /\ hist[i].func \in WasmFuncs
        /\ FrameSize(hist[i].func) = MaxValues - LenResults(hist[i].func) + 1
        /\ stacks[hist[i].stack].calls = <<>>
        /\ Len(stacks[hist[i].stack].values) = LenResults(hist[i].func)
        /\ outcome[i].tag = "Err"
        /\ hist[i].stack \in Range(pool)

\* C19: an invocation that takes a Stack from the pool on which an earlier
\* invocation, ended in an error, left frames and values starts from an empty
\* value stack and an empty call stack: what the root setup leaves (stack,
\* result and continuation) is what it leaves on a fresh Stack, so the
\* invocation goes on as on a fresh Stack.
C19_RecycledStackIsClean ==
    \A i \in Inv :
        hist[i].op = "root" =>
            LET fresh == ExecuteRootSetup(EmptyStack, hist[i].func,
                                          RootParams(hist[i].func), hist[i].fuel_ok)
            IN  /\ Reset(hist[i].pre) = EmptyStack
                /\ CurStack(i) = fresh.stack
                /\ trap[i] = fresh.trap
                /\ pc[i] = fresh.next

\* C19 witness: the root setup of a Wasm function has run on a recycled
\* Stack that held two frames and their values; one frame is on it now.
C19_Witness ==
    \E i \in Inv :
        /\ hist[i].op = "root"
        /\ Len(hist[i].pre.calls) = 2
        /\ Len(hist[i].pre.values) > 0
        /\ pc[i] = "exec"
        /\ Len(CurStack(i).calls) = 1

\* C20: in a root call of a host function the value stack, empty after the
\* reset, is extended by max(len_params, len_results) zeroed slots, the params
\* are written to slots [0, len_params) and the host is dispatched with caller
\* = Root; on success the results handed back are what the trampoline left in
\* slots [0, len_results), so a function that echoes its input returns its
\* params.
C20_RootHostCall ==
    \A i \in Inv :
        /\ (hist[i].op = "root" /\ hist[i].func \in HostFuncs) =>
              LET f == hist[i].func
                  v == CurStack(i).values
              IN  /\ pc[i] = "dispatch"
                  /\ CurStack(i).calls = <<>>
                  /\ Len(v) = Max(LenParams(f), LenResults(f))
                  /\ \A k \in 1..Len(v) :
                        v[k] = IF k <= LenParams(f) THEN call[i].params[k] ELSE 0
                  /\ pending[i].caller = RootCaller
                  /\ pending[i].host_func = f
        /\ (hist[i].op = "write_results_back" /\ call[i].func \in HostFuncs) =>
              LET f == call[i].func
              IN  /\ Len(results[i]) = LenResults(f)
                  /\ \A k \in 1..LenResults(f) : results[i][k] = CurStack(i).values[k]
                  /\ results[i] = HostOutputs(f, call[i].params)
                  /\ f = "hEcho" => results[i] = call[i].params

\* C20 witness: the root call of the echoing host function has handed back
\* its param.
C20_Witness ==
    \E i \in Inv :
        /\ hist[i].op = "write_results_back"
        /\ call[i].func = "hEcho"
        /\ call[i].params = <<7>>
        /\ results[i] = <<7>>

\* C21: in a root call of a Wasm function, when the pump loop is entered the
\* value stack is len_results zeroed result slots at offsets [0, len_results)
\* followed by the callee's frame of frame_size slots, the params are in the
\* first len(params) registers at base_ptr, every other frame slot is zero,
\* and the call stack holds exactly one frame, whose result span starts at
\* register 0. The steps are in the order reserve results, fetch the compiled
\* body, allocate the frame, fill the params, push the frame: a failed fetch
\* leaves the result slots reserved and no frame allocated, whatever the size
\* of the frame, and a failed allocation leaves no frame on the call stack.
C21_RootWasmSetup ==
    \A i \in Inv :
        (hist[i].op = "root" /\ hist[i].func \in WasmFuncs) =>
            LET f  == hist[i].func
                st == CurStack(i)
                ps == call[i].params
                len_results == LenResults(f)
                zeros == [k \in 1..len_results |-> 0]
            IN  /\ pc[i] \in {"exec", "ret"}
                /\ pc[i] = "exec" =>
                      /\ hist[i].fuel_ok
                      /\ trap[i] = NoTrap
                      /\ Len(st.values) = len_results + FrameSize(f)
                      /\ SubSeq(st.values, 1, len_results) = zeros
                      /\ \A k \in 1..FrameSize(f) :
                            st.values[len_results + k] =
                                IF k > LenConsts(f) /\ k <= LenConsts(f) + Len(ps)
                                THEN ps[k - LenConsts(f)] ELSE 0
                      /\ Len(ps) = LenParams(f)
                      /\ st.calls = <<CallFrame(f, len_results,
                                                len_results + LenConsts(f), 0)>>
                /\ pc[i] = "ret" =>
                      /\ st.values = zeros
                      /\ st.calls = <<>>
                      /\ trap[i] = IF ~hist[i].fuel_ok THEN WasmTrap("OutOfFuel")
                                   ELSE WasmTrap("StackOverflow")
                      /\ hist[i].fuel_ok => len_results + FrameSize(f) > MaxValues

\* C21 witness: the pump loop is entered for a function with a function local
\* constant, two params and two results.
C21_Witness ==
    \E i \in Inv :
        /\ hist[i].op = "root" /\ hist[i].func = "wPair" /\ pc[i] = "exec"
        /\ CurStack(i).values = <<0, 0, 0, 7, 8>>
        /\ Len(CurStack(i).calls) = 1

\* C22: in every state of the driver (root setup, host dispatch with its drop
\* of max_inout slots, tail-call pop, resume), every frame on a call stack
\* has frame_ptr <= base_ptr <= value_stack.len, and value_stack.len never
\* exceeds the capacity.
C22_FramesWithinValueStack ==
    \A s \in StackIds :
        /\ Len(stacks[s].values) <= MaxValues
        /\ \A k \in 1..Len(stacks[s].calls) :
              LET frame == stacks[s].calls[k]
              IN  /\ frame.frame_ptr <= frame.base_offset
                  /\ frame.base_offset <= Len(stacks[s].values)

\* C22 witness: a host function called from the second of two frames has been
\* dispatched and its buffer of max_inout slots has been dropped from a value
\* stack that holds the root's result slots and both frames.
C22_Witness ==
    \E i \in Inv :
        /\ hist[i].op = "dispatch"
        /\ hist[i].caller.tag = "Wasm"
        /\ Len(CurStack(i).calls) = 2
        /\ Len(hist[i].pre.values) > Len(CurStack(i).values)
        /\ Len(CurStack(i).values) > FrameSize("wId") + FrameSize("wPair")

\* C23: every time the pump loop runs the instruction executor, the call
\* stack is non-empty, so there is a top frame to execute; in particular
\* after a host function reached by a Tail call from the outermost frame has
\* returned successfully and the caller frame has been popped, the loop does
\* not run the instruction executor on an empty call stack.
C23_ExecutorHasTopFrame ==
    \A i \in Inv : pc[i] = "exec" => CurStack(i).calls # <<>>

\* C24: every ResumableInvocation returned by execute_func_resumable or
\* resume_func holds a parked Stack whose call stack is non-empty, so every
\* resume finds the caller frame that resume_func requires on top of the call
\* stack, after any number of trap/resume rounds.
C24_ParkedStackHasCallerFrame ==
    \A i \in Inv :
        /\ pc[i] = "parked" =>
              /\ rinv[i].tag = "some"
              /\ stacks[rinv[i].stack].calls # <<>>
        /\ hist[i].op = "resume" =>
              /\ hist[i].pre.calls # <<>>
              /\ pc[i] = "exec"
        /\ pc[i] # "panic"

\* C24 witness: an invocation that was resumed has trapped in a host function
\* again and is parked for the second time, with its caller frame on top.
C24_Witness ==
    \E i \in Inv :
        /\ pc[i] = "parked"
        /\ hist[i].op = "finish"
        /\ hist[i].api = "resume_func"
        /\ stacks[rinv[i].stack].calls # <<>>

\* C25: when resume_func ends in another host trap with a frame remaining on
\* the call stack, the result is Resumable with the same invocation holding
\* the same Stack (not recycled, not replaced), and its host_func, host_error
\* and caller_results are those of the new trap, not of the previous one.
C25_ResumeTrapUpdatesInPlace ==
    \A i \in Inv :
        (hist[i].op = "finish" /\ hist[i].api = "resume_func"
            /\ hist[i].trap.tag = "Host") =>
            /\ outcome[i] = [tag |-> "Resumable"]
            /\ pc[i] = "parked"
            /\ hist[i].prev.tag = "some"
            /\ rinv[i] = [tag |-> "some", func |-> hist[i].prev.func,
                          host_func |-> hist[i].trap.host_func,
                          host_error |-> hist[i].trap.host_error,
                          caller_results |-> hist[i].trap.caller_results,
                          stack |-> hist[i].prev.stack]
            /\ hist[i].stack = hist[i].prev.stack
            /\ rinv[i].stack \notin Range(pool)
            /\ nrec[i] = 0
            /\ stacks[rinv[i].stack].calls # <<>>

\* C25 witness: a resumed invocation is parked again by a trap of another
\* host function with another result span than the trap it was resumed from.
C25_Witness ==
    \E i \in Inv :
        /\ hist[i].op = "finish" /\ hist[i].api = "resume_func"
        /\ hist[i].trap.tag = "Host"
        /\ pc[i] = "parked"
        /\ rinv[i].host_func # hist[i].prev.host_func
        /\ rinv[i].caller_results # hist[i].prev.caller_results

\* C26: a host function that is itself the root callee and fails never
\* produces a ResumableInvocation: execute_func_resumable returns Err with the
\* host error, the value stack's buffer has been dropped, and the Stack is
\* returned to the pool.
C26_RootHostFailureIsFinal ==
    \A i \in Inv :
        (hist[i].op = "finish" /\ hist[i].api = "execute_func_resumable"
            /\ hist[i].func \in HostFuncs /\ hist[i].trap # NoTrap) =>
            /\ hist[i].trap = WasmTrap("E")
            /\ outcome[i] = [tag |-> "Err", error |-> "E"]
            /\ pc[i] = "done"
            /\ rinv[i] = NoRinv
            /\ stacks[hist[i].stack].values = <<>>
            /\ stacks[hist[i].stack].calls = <<>>
            /\ hist[i].stack \in Range(pool)
            /\ nrec[i] = 1
            /\ cur[i] = 0

\* C26 witness: execute_func_resumable of a host function with two params has
\* ended with the host error.
C26_Witness ==
    \E i \in Inv :
        /\ hist[i].op = "finish" /\ hist[i].api = "execute_func_resumable"
        /\ hist[i].func = "hSnd"
        /\ outcome[i] = [tag |-> "Err", error |-> "E"]

\* C27: dispatch_host_func pushes and pops no call frame in any outcome, and
\* when the trampoline fails it writes no register of the caller's frame: the
\* caller's result span holds the same values after the failed dispatch as
\* before it.
C27_DispatchKeepsFrames ==
    \A i \in Inv :
        hist[i].op = "dispatch" =>
            LET pre == hist[i].pre
                now == CurStack(i)
                h   == hist[i].host_func
            IN  /\ now.calls = pre.calls
                /\ (~hist[i].tramp.ok /\ hist[i].caller.tag = "Wasm") =>
                      LET caller_offset == Peek(pre.calls).base_offset
                          top == Peek(pre.calls)
                      IN  /\ \A k \in 0..(LenResults(h) - 1) :
                                GetReg(now.values, caller_offset, hist[i].caller.results + k)
                                  = GetReg(pre.values, caller_offset,
                                           hist[i].caller.results + k)
                          /\ \A o \in top.frame_ptr..(top.frame_ptr + FrameSize(top.func) - 1) :
                                now.values[o + 1] = pre.values[o + 1]

\* C27 witness: a host function called with a param that differs from the
\* caller's result register has failed in the second of two frames.
C27_Witness ==
    \E i \in Inv :
        /\ hist[i].op = "dispatch"
        /\ ~hist[i].tramp.ok
        /\ hist[i].caller.tag = "Wasm"
        /\ Len(CurStack(i).calls) = 2
        /\ LET pre == hist[i].pre
           IN  GetReg(pre.values, Peek(pre.calls).base_offset, hist[i].caller.results)
                 # pre.values[Len(pre.values) - Max(LenParams(hist[i].host_func),
                                                    LenResults(hist[i].host_func)) + 1]

\* C28: in the pump loop every Call outcome of the instruction executor leads
\* to exactly one invocation of the host trampoline, for the host function of
\* that outcome, before the instruction executor runs again or the invocation
\* ends, so host calls happen one at a time and in the order in which the Call
\* outcomes were produced; a Return outcome ends the loop with no further
\* host call. Step by step: a Call outcome is followed by the trampoline call
\* of its host function and by nothing else; the trampoline is called only
\* for a pending call; after the call the driver goes back to the executor or
\* ends the loop, never to the trampoline; after Return only
\* write_results_back and the end of the operation follow.
C28_OneTrampolineCallPerCallOutcome ==
    [][\A i \in Inv :
        /\ (pc[i] = "exec" /\ pc'[i] = "dispatch") =>
              /\ pending'[i].caller.tag = "Wasm"
              /\ pending'[i].host_func \in HostCallees(Peek(stacks[cur[i]].calls).func)
        /\ (pc[i] = "dispatch" /\ pc'[i] # "dispatch") =>
              /\ pc'[i] = "dispatched"
              /\ hist'[i].op = "dispatch"
              /\ hist'[i].host_func = pending[i].host_func
              /\ hist'[i].caller = pending[i].caller
        /\ (hist'[i].op = "dispatch" /\ hist'[i] # hist[i]) => pc[i] = "dispatch"
        /\ (pc[i] = "dispatched" /\ pc'[i] # "dispatched") =>
              /\ pc'[i] \in {"exec", "ret", "wb"}
              /\ pending'[i] = NoPending
        /\ (pc[i] = "exec" /\ pc'[i] \notin {"exec", "dispatch"}) =>
              /\ pc'[i] \in {"wb", "ret"}
              /\ pending'[i] = NoPending
        /\ (pc[i] = "wb" /\ pc'[i] # "wb") => pc'[i] = "ret"
        /\ (pc[i] = "ret" /\ pc'[i] # "ret") => pc'[i] \in {"done", "parked"}
      ]_vars

\* C28 witness: after a Wasm call and a first host call, the second host
\* call of an invocation has been dispatched.
C28_Witness ==
    \E i \in Inv :
        /\ hist[i].op = "dispatch"
        /\ hist[i].caller.tag = "Wasm"
        /\ Len(CurStack(i).calls) = 2
        /\ fuel[i] <= MaxFuel - 3
        /\ pc[i] = "dispatched"

\* A step of the instruction executor of invocation i.
ExecutorStep(i) ==
    /\ pc[i] = "exec"
    /\ pc'[i] # "exec" \/ stacks'[cur[i]] # stacks[cur[i]]

\* C29: the traced driver and the untraced driver are equivalent up to the
\* trace: for the same function, params and host behaviour,
\* execute_root_func_with_trace goes through the same sequence of value-stack
\* and call-stack states, performs the same host dispatches and returns the
\* same results or error as execute_root_func; for a root callee that is a
\* host function the tracer receives no ETable entry. Step by step, for an
\* invocation of execute_func_with_trace: the root setup leaves the stack,
\* the result and the continuation that execute_root_func leaves from the
\* same state; a host dispatch leaves what dispatch_host_func and
\* execute_host_func leave from the same state; the end of the operation
\* returns what execute_func returns and recycles the Stack; the executor's
\* steps add one ETable entry each and no other step adds or removes one.
C29_TracedDriverEquivalent ==
    [][\A i \in Inv :
        Traced(i) =>
            LET t  == TracerOf(i)
                st == stacks[cur[i]]
            IN  /\ (pc[i] = "root" /\ pc'[i] # "root") =>
                      LET r == ExecuteRootSetup(st, call[i].func, call[i].params,
                                                hist'[i].fuel_ok)
                      IN  /\ stacks'[cur[i]] = r.stack
                          /\ trap'[i] = r.trap
                          /\ pc'[i] = r.next
                          /\ r.next = "dispatch" => pending'[i].caller = RootCaller
                          /\ tracer'[t] = tracer[t]
                /\ (pc[i] = "dispatch" /\ pc'[i] # "dispatch") =>
                      LET d == DispatchHostFunc(st, pending[i].host_func, pending[i].caller,
                                                hist'[i].tramp)
                      IN  /\ stacks'[cur[i]] = d.stack
                          /\ pending'[i].error = d.error
                          /\ tracer'[t] = tracer[t]
                /\ (pc[i] = "dispatched" /\ pc'[i] # "dispatched") =>
                      /\ pending[i].caller.tag = "Wasm" =>
                            /\ stacks'[cur[i]].values = st.values
                            /\ stacks'[cur[i]].calls =
                                  PopForCallKind(st.calls, pending[i].call_kind)
                            /\ trap'[i] = WrapHostResult(stacks'[cur[i]].calls,
                                              pending[i].error, pending[i].host_func,
                                              pending[i].caller.results)
                      /\ pending[i].caller.tag = "Root" =>
                            /\ stacks'[cur[i]] = st
                            /\ trap'[i] = IF pending[i].error = "none" THEN NoTrap
                                          ELSE WasmTrap(pending[i].error)
                      /\ tracer'[t] = tracer[t]
                /\ (pc[i] = "wb" /\ pc'[i] # "wb") =>
                      /\ results'[i] = WriteResultsBack(st.values, LenResults(call[i].func))
                      /\ stacks'[cur[i]] = st
                      /\ tracer'[t] = tracer[t]
                /\ (pc[i] = "ret" /\ pc'[i] # "ret") =>
                      /\ pc'[i] = "done"
                      /\ outcome'[i] = IF trap[i] = NoTrap
                                       THEN [tag |-> "Finished", results |-> results[i]]
                                       ELSE [tag |-> "Err", error |-> IntoError(trap[i])]
                      /\ pool' = Recycle(pool, cur[i])
                      /\ tracer'[t] = tracer[t]
                /\ ExecutorStep(i) =>
                      /\ Len(tracer'[t].etable) = Len(tracer[t].etable) + 1
                      /\ SubSeq(tracer'[t].etable, 1, Len(tracer[t].etable))
                            = tracer[t].etable
                /\ call[i].func \in HostFuncs =>
                      /\ tracer[t].etable = <<>>
                      /\ tracer'[t].etable = <<>>
      ]_vars

\* C29 witness: execute_func_with_trace of a Wasm function has returned
\* results after a host dispatch, and the tracer holds the ETable entries of
\* the executor's steps.
C29_Witness ==
    \E i \in Inv :
        /\ hist[i].op = "finish"
        /\ hist[i].api = "execute_func_with_trace"
        /\ hist[i].func \in WasmFuncs
        /\ outcome[i].tag = "Finished"
        /\ Len(tracer[TracerOf(i)].etable) >= 2
        /\ \E k \in 1..Len(tracer[TracerOf(i)].etable) :
              tracer[TracerOf(i)].etable[k].step_info = Unimplemented("CallImported")

\* C30: in every MTable returned by get_mtable the entries appear in
\* non-decreasing eid order, every entry's eid is the eid of an I32BinOp entry
\* of the ETable, and no two entries share the same (eid, emid) pair.
C30_MTableOrderedAndKeyed ==
    \A t \in Derived :
        LET m == mtable[t].entries
            ev == BinOpEvents(tracer[t].etable)
        IN  /\ \A k \in 2..Len(m) : m[k - 1].eid <= m[k].eid
            /\ \A k \in 1..Len(m) : \E j \in 1..Len(ev) : ev[j].eid = m[k].eid
            /\ \A k, l \in 1..Len(m) :
                  (m[k].eid = m[l].eid /\ m[k].emid = m[l].emid) => k = l

\* C30 witness: the MTable of two I32BinOp events: six entries, the first
\* three with eid 1, the last three with eid 2 and the same emids.
C30_Witness ==
    \E t \in Derived :
        /\ Len(mtable[t].entries) = 6
        /\ mtable[t].entries[3].eid = 1
        /\ mtable[t].entries[4].eid = 2
        /\ mtable[t].entries[1].emid = mtable[t].entries[4].emid

====
